---- MODULE Spec2Model ----
(***************************************************************************)
(* Breakout game (breakout_game.py and the entity classes it drives) as a  *)
(* state machine.  An iteration of the loop of BreakoutGame.run is a run    *)
(* of Handle steps, one per event handle_events finds in the queue, and    *)
(* then a Frame step: update_game when the window is focused and the state *)
(* is GAME_RUNNING, draw_game, and the clock's tick.                       *)
(*                                                                         *)
(* Numbers.  pygame.Rect holds integers, so positions and sizes are        *)
(* integers.  Ball velocities are Python floats (5, 5.5, 3.5, 2.45, ...);  *)
(* they are kept exactly, as integers counted in millionths of a pixel     *)
(* (Unit), and Rect.move_ip truncates them toward zero as pygame does.     *)
(* Particle sizes shrink by 0.2 per update and are counted in fifths of a  *)
(* pixel; fragment sizes and fade speeds are counted in hundredths.        *)
(***************************************************************************)
EXTENDS Integers, Sequences, FiniteSets, TLC

\* ---------------------------------------------------------------- bounds
\* Loop iterations explored from an initial state.
MaxFrames == 10
\* Longest text a text box is given.
MaxText == 1
\* Largest grid create_bricks is asked for, beside those the game asks for.
MaxRows == 10
MaxCols == 10
\* Largest score, in hundreds, user_auth is given by a caller other than the
\* game.
MaxScore == 3

\* ------------------------------------------------------ program constants
MAIN_MENU == 0
GAME_RUNNING == 1
PAUSED == 2
GAME_OVER == 3
POST_LOGIN_MENU == 4
POWER_UP_DURATION == 5000
special_brick_types == <<"increase_paddle_size", "slow_ball", "extra_life">>
\* Python's None where the other values are strings (no power-up, no key).
None == "None"
\* None as current_user: no username is empty, usernames being stripped.
NoUser == <<>>
\* None as a high score: no score is negative.
NoHighScore == 0 - 1
\* The display surface before anything is drawn on it.
Blank == 0 - 2
\* clock.tick(60): one loop iteration lasts 1000/60 ms, rounded up.
FrameMs == 1000 \div 60 + 1
\* One pixel per tick, in the unit velocities are counted in.
Unit == 1000 * 1000

\* ------------------------------------------------------------ arithmetic
Abs(v) == IF v < 0 THEN -v ELSE v
Sgn(v) == IF v < 0 THEN -1 ELSE IF v > 0 THEN 1 ELSE 0
Max(a, b) == IF a > b THEN a ELSE b
Min(a, b) == IF a < b THEN a ELSE b
\* v * (t/10) for a float v: 0.7 is t = 7, 1.1 is t = 11, 1.5 is t = 15.
TimesTenths(v, t) == Sgn(v) * ((Abs(v) * t) \div 10)
\* int(v) as pygame.Rect applies it to a float argument: toward zero.
Trunc(v) == Sgn(v) * (Abs(v) \div Unit)

\* ------------------------------------------------------------ pygame.Rect
Rect(x, y, w, h) == [x |-> x, y |-> y, w |-> w, h |-> h]
\* Rect.colliderect: the rectangles overlap; touching edges do not collide.
CollideRect(a, b) ==
    /\ a.x < b.x + b.w
    /\ b.x < a.x + a.w
    /\ a.y < b.y + b.h
    /\ b.y < a.y + a.h

\* ------------------------------------------------------------------ Ball
\* Ball.__init__: rect (390, 290, 20, 20), speed (5, -5), empty trail.
Ball == [x |-> 400 - 10, y |-> 300 - 10, dx |-> 5 * Unit, dy |-> -5 * Unit,
         trail |-> <<>>]
BallRect(b) == Rect(b.x, b.y, 20, 20)
\* A trail particle, named by the ball centre (rect.centerx, rect.centery)
\* it was created at.
TrailParticle(b) == <<b.x + 10, b.y + 10>>

\* Ball.move with pop() for pop(0): the newest is dropped past 20.
Ball_move_dropping_newest(b) ==
    LET appended == Append(b.trail, TrailParticle(b))
        kept == IF Len(appended) > 20 THEN SubSeq(appended, 1, 20) ELSE appended
    IN  [b EXCEPT !.trail = kept,
                  !.x = b.x + Trunc(b.dx),
                  !.y = b.y + Trunc(b.dy)]

\* Ball.move: append a trail particle, drop the oldest past 20, move the rect.
Ball_move(b) ==
    LET appended == Append(b.trail, TrailParticle(b))
        kept == IF Len(appended) > 20 THEN Tail(appended) ELSE appended
    IN  [b EXCEPT !.trail = kept,
                  !.x = b.x + Trunc(b.dx),
                  !.y = b.y + Trunc(b.dy)]

\* check_collision_with_walls with the walls themselves left out: < and >
\* where the method has <= and >=.
check_collision_with_walls_inside(b) ==
    LET dx1 == IF b.x < 0 \/ b.x + 20 > 800 THEN -b.dx ELSE b.dx
        dy1 == IF b.y < 0 THEN -b.dy ELSE b.dy
    IN  [b EXCEPT !.dx = dx1, !.dy = dy1]

\* Ball.check_collision_with_walls.
check_collision_with_walls(b) ==
    LET dx1 == IF b.x <= 0 \/ b.x + 20 >= 800 THEN -b.dx ELSE b.dx
        dy1 == IF b.y <= 0 THEN -b.dy ELSE b.dy
    IN  [b EXCEPT !.dx = dx1, !.dy = dy1]

\* ---------------------------------------------------------------- Paddle
\* Paddle.__init__: rect (350, 580, 100, 10).
Paddle == [x |-> 400 - 50, width |-> 100]
\* The paddle 30 pixels high: its bottom edge at 610, below the screen's.
PaddleRect_tall(p) == Rect(p.x, 580, p.width, 30)
PaddleRect(p) == Rect(p.x, 580, p.width, 10)

\* Paddle.move: the bound is 800 - 100 whatever the current width.
Paddle_move(p, dx) ==
    IF 0 < p.x + dx /\ p.x + dx < 800 - 100 THEN [p EXCEPT !.x = p.x + dx] ELSE p

\* ----------------------------------------------------------------- Brick
\* Brick.__init__ at (x, y), 70 x 20, with its power_up_type: the tuple
\* <<rect.x, rect.y, power_up_type>>.
Brick(x, y, type) == <<x, y, type>>
BrickRect(brick) == Rect(brick[1], brick[2], 70, 20)
BrickType(brick) == brick[3]

\* --------------------------------------------------------------- PowerUp
PowerUp(x, y, type) == [x |-> x, y |-> y, power_up_type |-> type]
PowerUpRect(pu) == Rect(pu.x, pu.y, 20, 20)
\* PowerUp.move at 1 pixel a frame.
PowerUp_move_slowly(pu) == [pu EXCEPT !.y = pu.y + 1]
\* PowerUp.move: 2 pixels down.
PowerUp_move(pu) == [pu EXCEPT !.y = pu.y + 2]

\* -------------------------------------------------------------- Particle
\* Particle.__init__: lifetime 50 and a random size in 5..10 (fifths: 25..50).
\* Position, velocity and colour only feed the drawing and are left out.
Particle(size) == [size |-> 5 * size, lifetime |-> 50]
\* Particle.update without its last line: the lifetime is left as it was.
Particle_update_ageless(pt) == [size |-> Max(pt.size - 1, 0), lifetime |-> pt.lifetime]
\* Particle.update: size -= 0.2 with floor 0, lifetime -= 1.
Particle_update(pt) == [size |-> Max(pt.size - 1, 0), lifetime |-> pt.lifetime - 1]

\* --------------------------------------------------------- BrickFragment
\* Brick.break_into_fragments: width, height and fade speed in hundredths.
BrickFragment(w, h, fade) == [width |-> w, height |-> h, fade_speed |-> fade]
\* BrickFragment.update: both sides shrink by the fade speed, floor 0.
BrickFragment_update(f) ==
    [f EXCEPT !.width = Max(f.width - f.fade_speed, 0),
              !.height = Max(f.height - f.fade_speed, 0)]

\* hashlib.sha256(password).hexdigest(): one-way and taken to be free of
\* collisions; the digest of a password is never a password.
Hash(password) == <<"sha256", password>>

\* register_user without the test `username in users`: the record is written
\* anew.
register_user_overwriting(users_, username, password) ==
    [u \in DOMAIN users_ \cup {username} |->
        IF u = username
        THEN [password |-> Hash(password), high_score |-> 0]
        ELSE users_[u]]

\* register_user storing the password as it was typed, not its digest.
register_user_unhashed(users_, username, password) ==
    IF username \in DOMAIN users_
    THEN users_
    ELSE [u \in DOMAIN users_ \cup {username} |->
            IF u = username
            THEN [password |-> password, high_score |-> 0]
            ELSE users_[u]]

\* user_auth.register_user: the users dictionary afterwards.
register_user(users_, username, password) ==
    IF username \in DOMAIN users_
    THEN users_
    ELSE [u \in DOMAIN users_ \cup {username} |->
            IF u = username
            THEN [password |-> Hash(password), high_score |-> 0]
            ELSE users_[u]]

\* login_user without the tests: whoever asks is let in.
login_user_trusting(users_, username, password) == TRUE

\* user_auth.login_user.
login_user(users_, username, password) ==
    /\ username \in DOMAIN users_
    /\ users_[username].password = Hash(password)

\* user_auth.update_high_score: the users dictionary afterwards.
update_high_score(users_, username, score_) ==
    IF username \in DOMAIN users_ /\ score_ > users_[username].high_score
    THEN [users_ EXCEPT ![username].high_score = score_]
    ELSE users_

\* get_high_score with 0 for an unknown user.
get_high_score_or_zero(users_, username) ==
    IF username \in DOMAIN users_ THEN users_[username].high_score ELSE 0

\* user_auth.get_high_score: None for an unknown user.
get_high_score(users_, username) ==
    IF username \in DOMAIN users_ THEN users_[username].high_score ELSE NoHighScore

\* A value user_auth returns: None, a bool or an int, named by its type and
\* its number (1 for True, 0 for False and for None).
Returns(type, number) == <<type, number>>
ReturnsBool(verdict) == Returns("bool", IF verdict THEN 1 ELSE 0)
ReturnsHighScore(high_score) ==
    IF high_score = NoHighScore THEN Returns("None", 0) ELSE Returns("int", high_score)

\* ------------------------------------------------------------ text boxes
\* str.strip(): leading and trailing blanks removed.
RECURSIVE LStrip(_)
LStrip(t) == IF t # <<>> /\ Head(t) = " " THEN LStrip(Tail(t)) ELSE t
RECURSIVE RStrip(_)
RStrip(t) ==
    IF t # <<>> /\ t[Len(t)] = " " THEN RStrip(SubSeq(t, 1, Len(t) - 1)) ELSE t
Strip(t) == RStrip(LStrip(t))

\* TextInputBox.__init__ / PassTextInputBox.__init__: empty and inactive.
\* (The password box's masked_text only feeds the drawing and is left out.)
TextInputBox == [text |-> <<>>, active |-> FALSE]

\* TextInputBox.reset / PassTextInputBox.reset.
TextInputBox_reset(box) == [box EXCEPT !.text = <<>>]

\* ---------------------------------------------------------------- events
\* The widgets' rectangles are disjoint, so a click is named by the widget
\* it lands in ("elsewhere": in none).
ClickTargets == {"username_input", "password_input", "login_button",
                 "register_button", "elsewhere"}
\* Keys and the character (event.unicode) each carries.
Keys == {"K_RETURN", "K_BACKSPACE", "K_p", "K_r", "K_SPACE"}
Unicode(key) ==
    CASE key = "K_p" -> "p"
      [] key = "K_r" -> "r"
      [] key = "K_SPACE" -> " "
      [] OTHER -> ""
Event(type, key, target) == [type |-> type, key |-> key, target |-> target]
WindowFocusLost == Event("WINDOWFOCUSLOST", None, None)
WindowFocusGained == Event("WINDOWFOCUSGAINED", None, None)
KeyDown(key) == Event("KEYDOWN", key, None)
MouseButtonDown(target) == Event("MOUSEBUTTONDOWN", None, target)

\* TextInputBox.handle_event / PassTextInputBox.handle_event; `name` is the
\* click target that lies inside the box.
TextInputBox_handle_event(box, name, event) ==
    LET clicked ==
            IF event.type = "MOUSEBUTTONDOWN"
            THEN [box EXCEPT !.active =
                        IF event.target = name THEN ~box.active ELSE FALSE]
            ELSE box
    IN  IF event.type = "KEYDOWN" /\ clicked.active
        THEN IF event.key = "K_RETURN"
             THEN [clicked EXCEPT !.text = <<>>]
             ELSE IF event.key = "K_BACKSPACE"
             THEN [clicked EXCEPT !.text =
                        IF clicked.text = <<>> THEN <<>>
                        ELSE SubSeq(clicked.text, 1, Len(clicked.text) - 1)]
             ELSE [clicked EXCEPT !.text =
                        IF Unicode(event.key) = "" THEN clicked.text
                        ELSE Append(clicked.text, Unicode(event.key))]
        ELSE clicked

\* Button.handle_event: the click landed in the button.
Button_handle_event(name, event) ==
    event.type = "MOUSEBUTTONDOWN" /\ event.target = name

\* ---------------------------------------------------------- random draws
\* What random.random / random.choice / random.randint / random.uniform gave
\* in one call of create_bricks, or in one tick for the particles and the
\* fragments it spawned.  The draws are taken from small sets.
\* create_bricks: the bricks random.random tagged, <<row, col>>, each with
\* the type random.choice gave it.
NoTags == [brick \in {} |-> None]
\* No brick tagged, or brick (4, 6) tagged slow_ball.
TagDraws == {NoTags, <<4, 6>> :> special_brick_types[2]}
\* Particle.__init__: the sizes of the 10 particles of a burst.
SizeDraws == {<<5, 5, 5, 5, 5, 5, 5, 5, 5, 5>>, <<5, 6, 7, 8, 9, 10, 10, 9, 8, 7>>}
\* check_collision_with_bricks / break_into_fragments: how many fragments
\* (4..10) and their width (17..35), height (5..10) and fade speed (0.05..0.1).
FragmentDraws ==
    {[n |-> 4, width |-> 1700, height |-> 500, fade_speed |-> 10],
     [n |-> 10, width |-> 3500, height |-> 1000, fade_speed |-> 5]}
Draw(tags, sizes, fragment) == [tags |-> tags, sizes |-> sizes, fragment |-> fragment]
NoDraw == Draw(NoTags, <<5, 5, 5, 5, 5, 5, 5, 5, 5, 5>>,
               [n |-> 4, width |-> 1700, height |-> 500, fade_speed |-> 10])

\* 10 particles with the drawn sizes.
Burst(sizes) == [i \in 1..10 |-> Particle(sizes[i])]

\* ---------------------------------------------------------- BreakoutGame
\* create_bricks with the bricks' width, 70, as the horizontal pitch.
create_bricks_packed(rows, cols, tags) ==
    [i \in 1..(rows * cols) |->
        LET row == (i - 1) \div cols
            col == (i - 1) % cols
        IN  Brick(col * 70 + 10, row * 30 + 10,
                  IF <<row, col>> \in DOMAIN tags THEN tags[<<row, col>>] ELSE None)]

\* BreakoutGame.create_bricks: rows x cols bricks in row-major order, the
\* drawn brick (if it lies in the grid) carrying its power-up type.
create_bricks(rows, cols, tags) ==
    [i \in 1..(rows * cols) |->
        LET row == (i - 1) \div cols
            col == (i - 1) % cols
        IN  Brick(col * 80 + 10, row * 30 + 10,
                  IF <<row, col>> \in DOMAIN tags THEN tags[<<row, col>>] ELSE None)]

\* BreakoutGame.__init__ with the users dictionary load_users_from_file read
\* and the grid's draw; `moment` is pygame.time.get_ticks().
BreakoutGame(file, tags, moment) ==
    [paddle |-> Paddle,
     ball |-> Ball,
     default_ball_dx |-> Ball.dx,
     default_ball_dy |-> Ball.dx,
     row_range |-> 5,
     bricks |-> create_bricks(5, 10, tags),
     particles |-> <<>>,
     fragments |-> <<>>,
     level |-> 1,
     score |-> 0,
     current_high_score |-> 0,
     lives |-> 3,
     stage_bricks |-> 5 * 10,
     active_power_up |-> None,
     power_ups |-> <<>>,
     power_up_start_time |-> 0,
     paddle_width_default |-> Paddle.width,
     game_state |-> MAIN_MENU,
     logged_in |-> FALSE,
     current_user |-> NoUser,
     focused |-> TRUE,
     username_input |-> TextInputBox,
     password_input |-> TextInputBox,
     users |-> file,
     returned |-> Returns("None", 0),
     screen |-> Blank,
     now |-> moment,
     error |-> None]

\* BreakoutGame.activate_power_up.
activate_power_up(s, power_up_type) ==
    LET applied ==
            IF power_up_type = "increase_paddle_size"
            THEN [s EXCEPT !.paddle.width = TimesTenths(s.paddle_width_default, 15)]
            ELSE IF power_up_type = "slow_ball"
            THEN [s EXCEPT !.ball.dx = TimesTenths(s.ball.dx, 7),
                           !.ball.dy = TimesTenths(s.ball.dy, 7)]
            ELSE IF power_up_type = "extra_life"
            THEN [s EXCEPT !.lives = s.lives + 1]
            ELSE s
    IN  [applied EXCEPT !.active_power_up = power_up_type,
                        !.power_up_start_time = s.now]

\* reset_power_ups taking back the life of an extra_life that expires.
reset_power_ups_taking_life(s) ==
    [s EXCEPT !.active_power_up = None,
              !.lives = IF s.active_power_up = "extra_life" THEN s.lives - 1 ELSE s.lives]

\* BreakoutGame.reset_power_ups.
reset_power_ups(s) ==
    LET direction_x == IF s.ball.dx > 0 THEN 1 ELSE -1
        direction_y == IF s.ball.dy > 0 THEN 1 ELSE -1
        restored ==
            IF s.active_power_up = "increase_paddle_size"
            THEN [s EXCEPT !.paddle.width = s.paddle_width_default]
            ELSE IF s.active_power_up = "slow_ball"
            THEN [s EXCEPT !.ball.dx = s.default_ball_dx * direction_x,
                           !.ball.dy = s.default_ball_dy * direction_y]
            ELSE s
    IN  [restored EXCEPT !.active_power_up = None]

\* scoring without line 347: the baseline stage_bricks is left as it was.
scoring_keeping_baseline(s) ==
    LET bricks_destroyed == s.stage_bricks - Len(s.bricks)
    IN  [s EXCEPT !.score = s.score + bricks_destroyed * (s.level * 100)]

\* BreakoutGame.scoring.
scoring(s) ==
    LET bricks_destroyed == s.stage_bricks - Len(s.bricks)
    IN  [s EXCEPT !.score = s.score + bricks_destroyed * (s.level * 100),
                  !.stage_bricks = Len(s.bricks)]

\* BreakoutGame.level_up; `tags` is the draw of the new grid.
level_up(s, tags) ==
    LET row_range1 == s.row_range + 1
        row_range2 == IF row_range1 > 10 THEN 10 ELSE row_range1
        ball1 == [Ball EXCEPT !.dx = TimesTenths(Ball.dx, 11),
                              !.dy = TimesTenths(Ball.dy, 11)]
        bricks1 == create_bricks(row_range2, 10, tags)
    IN  [s EXCEPT !.level = s.level + 1,
                  !.row_range = row_range2,
                  !.paddle = Paddle,
                  !.ball = ball1,
                  !.default_ball_dx = ball1.dx,
                  !.default_ball_dy = ball1.dy,
                  !.particles = <<>>,
                  !.fragments = <<>>,
                  !.bricks = bricks1,
                  !.stage_bricks = Len(bricks1),
                  !.game_state = GAME_RUNNING]

\* BreakoutGame.register_user (the Register button).
BreakoutGame_register_user(s) ==
    LET username == Strip(s.username_input.text)
        password == Strip(s.password_input.text)
    IN  IF username # <<>> /\ password # <<>>
        THEN [s EXCEPT !.users = register_user(s.users, username, password),
                       !.returned = Returns("None", 0),
                       !.username_input = TextInputBox_reset(s.username_input),
                       !.password_input = TextInputBox_reset(s.password_input)]
        ELSE s

\* BreakoutGame.login_user without the test of user_auth.login_user's answer.
login_user_unverified(s) ==
    LET username == Strip(s.username_input.text)
        password == Strip(s.password_input.text)
    IN  IF username # <<>> /\ password # <<>>
        THEN [s EXCEPT !.logged_in = TRUE,
                       !.current_user = username,
                       !.current_high_score = get_high_score(s.users, username),
                       !.returned = ReturnsHighScore(get_high_score(s.users, username)),
                       !.game_state = POST_LOGIN_MENU]
        ELSE s

\* BreakoutGame.login_user without lines 547-548: the text boxes are left as
\* they are when user_auth.login_user refuses.
login_user_keeping_fields(s) ==
    LET username == Strip(s.username_input.text)
        password == Strip(s.password_input.text)
    IN  IF username # <<>> /\ password # <<>>
        THEN IF login_user(s.users, username, password)
             THEN [s EXCEPT !.logged_in = TRUE,
                            !.current_user = username,
                            !.current_high_score = get_high_score(s.users, username),
                            !.returned = ReturnsHighScore(get_high_score(s.users, username)),
                            !.game_state = POST_LOGIN_MENU]
             ELSE [s EXCEPT !.returned = ReturnsBool(FALSE)]
        ELSE s

\* BreakoutGame.login_user (the Login button).
BreakoutGame_login_user(s) ==
    LET username == Strip(s.username_input.text)
        password == Strip(s.password_input.text)
    IN  IF username # <<>> /\ password # <<>>
        THEN IF login_user(s.users, username, password)
             THEN [s EXCEPT !.logged_in = TRUE,
                            !.current_user = username,
                            !.current_high_score = get_high_score(s.users, username),
                            !.returned = ReturnsHighScore(get_high_score(s.users, username)),
                            !.game_state = POST_LOGIN_MENU]
             ELSE [s EXCEPT !.returned = ReturnsBool(FALSE),
                            !.username_input = TextInputBox_reset(s.username_input),
                            !.password_input = TextInputBox_reset(s.password_input)]
        ELSE s

\* BreakoutGame.update_high_score storing the score of the run whatever the
\* high score stored.
update_high_score_unconditionally(s) ==
    LET current_high_score == get_high_score(s.users, s.current_user)
    IN  IF current_high_score = NoHighScore
        THEN [s EXCEPT !.returned = ReturnsHighScore(current_high_score),
                       !.error = "TypeError"]
        ELSE [s EXCEPT !.users = [s.users EXCEPT ![s.current_user].high_score = s.score],
                       !.returned = Returns("None", 0)]

\* BreakoutGame.update_high_score: `score > None` raises TypeError.
BreakoutGame_update_high_score(s) ==
    LET current_high_score == get_high_score(s.users, s.current_user)
    IN  IF current_high_score = NoHighScore
        THEN [s EXCEPT !.returned = ReturnsHighScore(current_high_score),
                       !.error = "TypeError"]
        ELSE IF s.score > current_high_score
        THEN [s EXCEPT !.users = update_high_score(s.users, s.current_user, s.score),
                       !.returned = Returns("None", 0)]
        ELSE [s EXCEPT !.returned = ReturnsHighScore(current_high_score)]

\* reset_game with the state its docstring names, MAIN_MENU.
reset_game_to_main_menu(s) ==
    LET bricks1 == create_bricks(5, 10, NoTags)
    IN  [s EXCEPT !.paddle = Paddle,
                  !.ball = Ball,
                  !.bricks = bricks1,
                  !.particles = <<>>,
                  !.fragments = <<>>,
                  !.score = 0,
                  !.level = 1,
                  !.lives = 3,
                  !.stage_bricks = Len(bricks1),
                  !.game_state = MAIN_MENU]

\* BreakoutGame.reset_game.
reset_game(s) ==
    LET bricks1 == create_bricks(5, 10, NoTags)
    IN  [s EXCEPT !.paddle = Paddle,
                  !.ball = Ball,
                  !.bricks = bricks1,
                  !.particles = <<>>,
                  !.fragments = <<>>,
                  !.score = 0,
                  !.level = 1,
                  !.lives = 3,
                  !.stage_bricks = Len(bricks1),
                  !.game_state = POST_LOGIN_MENU]

\* Ball.check_collision_with_paddle, on the game's ball, paddle and particles.
check_collision_with_paddle(s, sizes) ==
    IF CollideRect(BallRect(s.ball), PaddleRect(s.paddle))
    THEN [s EXCEPT !.ball.dy = -s.ball.dy,
                   !.particles = s.particles \o Burst(sizes)]
    ELSE s

\* check_collision_with_bricks with dy negated once for all the bricks of the
\* pass.
check_collision_with_bricks_once(s, draw) ==
    LET hit(brick) == CollideRect(BallRect(s.ball), BrickRect(brick))
        broken == SelectSeq(s.bricks, hit)
        tagged == SelectSeq(broken, LAMBDA brick : BrickType(brick) # None)
        fragment == BrickFragment(draw.fragment.width, draw.fragment.height,
                                  draw.fragment.fade_speed)
    IN  [s EXCEPT
           !.ball.dy = IF Len(broken) > 0 THEN -s.ball.dy ELSE s.ball.dy,
           !.power_ups = s.power_ups \o
               [i \in 1..Len(tagged) |->
                   PowerUp(BrickRect(tagged[i]).x + 25, BrickRect(tagged[i]).y, BrickType(tagged[i]))],
           !.bricks = SelectSeq(s.bricks, LAMBDA brick : ~hit(brick)),
           !.particles = s.particles \o
               [i \in 1..(10 * Len(broken)) |-> Particle(draw.sizes[((i - 1) % 10) + 1])],
           !.fragments = s.fragments \o
               [i \in 1..(draw.fragment.n * Len(broken)) |-> fragment]]

\* check_collision_with_bricks with a power-up dropped by every brick, of the
\* first type for a brick that has none.
check_collision_with_bricks_dropping_always(s, draw) ==
    LET hit(brick) == CollideRect(BallRect(s.ball), BrickRect(brick))
        broken == SelectSeq(s.bricks, hit)
        fragment == BrickFragment(draw.fragment.width, draw.fragment.height,
                                  draw.fragment.fade_speed)
    IN  [s EXCEPT
           !.ball.dy = IF Len(broken) % 2 = 1 THEN -s.ball.dy ELSE s.ball.dy,
           !.power_ups = s.power_ups \o
               [i \in 1..Len(broken) |->
                   PowerUp(BrickRect(broken[i]).x + 25, BrickRect(broken[i]).y,
                           IF BrickType(broken[i]) # None THEN BrickType(broken[i])
                           ELSE special_brick_types[1])],
           !.bricks = SelectSeq(s.bricks, LAMBDA brick : ~hit(brick)),
           !.particles = s.particles \o
               [i \in 1..(10 * Len(broken)) |-> Particle(draw.sizes[((i - 1) % 10) + 1])],
           !.fragments = s.fragments \o
               [i \in 1..(draw.fragment.n * Len(broken)) |-> fragment]]

\* BreakoutGame.check_collision_with_bricks.  The ball's rect does not move
\* during the pass over the snapshot, so the bricks it hits are those that
\* collide with it at the start; each negates dy, drops its power-up, is
\* removed, and spawns 10 particles and the drawn number of fragments.
check_collision_with_bricks(s, draw) ==
    LET hit(brick) == CollideRect(BallRect(s.ball), BrickRect(brick))
        broken == SelectSeq(s.bricks, hit)
        tagged == SelectSeq(broken, LAMBDA brick : BrickType(brick) # None)
        fragment == BrickFragment(draw.fragment.width, draw.fragment.height,
                                  draw.fragment.fade_speed)
    IN  [s EXCEPT
           !.ball.dy = IF Len(broken) % 2 = 1 THEN -s.ball.dy ELSE s.ball.dy,
           !.power_ups = s.power_ups \o
               [i \in 1..Len(tagged) |->
                   PowerUp(BrickRect(tagged[i]).x + 25, BrickRect(tagged[i]).y, BrickType(tagged[i]))],
           !.bricks = SelectSeq(s.bricks, LAMBDA brick : ~hit(brick)),
           !.particles = s.particles \o
               [i \in 1..(10 * Len(broken)) |-> Particle(draw.sizes[((i - 1) % 10) + 1])],
           !.fragments = s.fragments \o
               [i \in 1..(draw.fragment.n * Len(broken)) |-> fragment]]

\* Lines 295-299 with the test of the lifetime alone.
update_particles_by_lifetime(s) ==
    LET updated == [i \in 1..Len(s.particles) |-> Particle_update(s.particles[i])]
    IN  [s EXCEPT !.particles = SelectSeq(updated, LAMBDA pt : ~(pt.lifetime <= 0))]

\* update_game, lines 295-299: every particle is updated once, the dead removed.
update_particles(s) ==
    LET updated == [i \in 1..Len(s.particles) |-> Particle_update(s.particles[i])]
    IN  [s EXCEPT !.particles =
            SelectSeq(updated, LAMBDA pt : ~(pt.lifetime <= 0 \/ pt.size <= 0))]

\* update_game, lines 301-304: the same for the fragments.
update_fragments(s) ==
    LET updated == [i \in 1..Len(s.fragments) |-> BrickFragment_update(s.fragments[i])]
    IN  [s EXCEPT !.fragments =
            SelectSeq(updated, LAMBDA f : ~(f.width <= 0 \/ f.height <= 0))]

\* update_game, lines 306-308: score when bricks have gone since the baseline.
score_bricks(s) ==
    IF Len(s.bricks) < s.stage_bricks THEN scoring(s) ELSE s

\* update_game, lines 310-312: level up when no brick is left.
clear_level(s, tags) ==
    IF Len(s.bricks) = 0 THEN level_up(s, tags) ELSE s

\* Lines 314-318 without line 318: the lost ball is not replaced.
lose_life_keeping_ball(s) ==
    IF s.ball.y + 20 >= 600 /\ s.lives > 1
    THEN [s EXCEPT !.lives = s.lives - 1]
    ELSE s

\* Lines 314-318 with the grid made anew for the new ball.
lose_life_and_grid(s) ==
    IF s.ball.y + 20 >= 600 /\ s.lives > 1
    THEN [s EXCEPT !.lives = s.lives - 1, !.ball = Ball,
                   !.bricks = create_bricks(s.row_range, 10, NoTags)]
    ELSE s

\* Lines 314-318 without the test `lives > 1`: the last life goes as the
\* others.
lose_life_to_zero(s) ==
    IF s.ball.y + 20 >= 600
    THEN [s EXCEPT !.lives = s.lives - 1, !.ball = Ball]
    ELSE s

\* update_game, lines 314-318: a ball lost with lives to spare.
lose_life(s) ==
    IF s.ball.y + 20 >= 600 /\ s.lives > 1
    THEN [s EXCEPT !.lives = s.lives - 1, !.ball = Ball]
    ELSE s

\* The rest of the tick after BreakoutGame.update_high_score returned or raised.
finalize(s) ==
    IF s.error # None THEN s
    ELSE [s EXCEPT !.current_high_score = get_high_score(s.users, s.current_user),
                   !.returned = ReturnsHighScore(get_high_score(s.users, s.current_user)),
                   !.game_state = GAME_OVER]

\* Lines 319-323 without line 320: the high score is not written.
game_over_unsaved(s) ==
    IF s.ball.y + 20 >= 600 /\ s.lives = 1
    THEN finalize(s)
    ELSE s

\* update_game, lines 319-323: the last ball lost.
game_over(s) ==
    IF s.ball.y + 20 >= 600 /\ s.lives = 1
    THEN finalize(BreakoutGame_update_high_score(s))
    ELSE s

\* Lines 325-334 with the effect of a power-up activated at the bottom of
\* the screen as it is on the paddle.
RECURSIVE move_power_ups_activating_gone(_, _, _)
move_power_ups_activating_gone(s, snapshot, kept) ==
    IF snapshot = <<>> THEN [s EXCEPT !.power_ups = kept]
    ELSE LET power_up == PowerUp_move(Head(snapshot))
             collected == CollideRect(PowerUpRect(power_up), PaddleRect(s.paddle))
             gone == power_up.y >= 600
         IN  IF collected \/ gone
             THEN move_power_ups_activating_gone(
                      activate_power_up(s, power_up.power_up_type), Tail(snapshot), kept)
             ELSE move_power_ups_activating_gone(s, Tail(snapshot),
                                                 Append(kept, power_up))

\* update_game, lines 325-334: the falling power-ups, over a snapshot of the
\* list; `kept` is the part of the list already passed and still in it.
\* Removing a power-up a second time raises ValueError.
RECURSIVE move_power_ups(_, _, _)
move_power_ups(s, snapshot, kept) ==
    IF snapshot = <<>> THEN [s EXCEPT !.power_ups = kept]
    ELSE LET power_up == PowerUp_move(Head(snapshot))
             collected == CollideRect(PowerUpRect(power_up), PaddleRect(s.paddle))
             gone == power_up.y >= 600
         IN  IF collected /\ gone
             THEN [activate_power_up(s, power_up.power_up_type) EXCEPT
                     !.error = "ValueError",
                     !.power_ups = kept \o Tail(snapshot)]
             ELSE IF collected
             THEN move_power_ups(activate_power_up(s, power_up.power_up_type),
                                 Tail(snapshot), kept)
             ELSE move_power_ups(s, Tail(snapshot),
                                 IF gone THEN kept ELSE Append(kept, power_up))

fall_power_ups(s) ==
    IF s.error # None THEN s ELSE move_power_ups(s, s.power_ups, <<>>)

\* Lines 336-337 without the test of the time elapsed.
expire_power_up_untimed(s) ==
    IF s.error = None /\ s.active_power_up # None THEN reset_power_ups(s) ELSE s

\* update_game, lines 336-337: the active effect expires.
expire_power_up(s) ==
    IF /\ s.error = None
       /\ s.active_power_up # None
       /\ s.now - s.power_up_start_time > POWER_UP_DURATION
    THEN reset_power_ups(s)
    ELSE s

\* update_game, lines 278-286: the ball moves and meets the walls, the paddle
\* follows the arrow keys held down.
move_ball_and_paddle(s, keys) ==
    [s EXCEPT
       !.ball = check_collision_with_walls(Ball_move(s.ball)),
       !.paddle =
           IF "K_RIGHT" \in keys
           THEN Paddle_move(IF "K_LEFT" \in keys THEN Paddle_move(s.paddle, -9)
                            ELSE s.paddle, 9)
           ELSE IF "K_LEFT" \in keys THEN Paddle_move(s.paddle, -9)
           ELSE s.paddle]

\* update_game with lines 310-312 (the level-up) before lines 306-308 (the
\* scoring).
update_game_levelling_first(s, keys, draw) ==
    IF s.game_state # GAME_RUNNING THEN s
    ELSE expire_power_up(fall_power_ups(game_over(lose_life(
            score_bricks(
                clear_level(update_fragments(update_particles(
                    check_collision_with_bricks(
                        check_collision_with_paddle(move_ball_and_paddle(s, keys),
                                                    draw.sizes),
                        draw))),
                    draw.tags))))))

\* BreakoutGame.update_game with the arrow keys held down and the tick's
\* draws: the steps of the method in its order.
update_game(s, keys, draw) ==
    IF s.game_state # GAME_RUNNING THEN s
    ELSE expire_power_up(fall_power_ups(game_over(lose_life(
            clear_level(
                score_bricks(update_fragments(update_particles(
                    check_collision_with_bricks(
                        check_collision_with_paddle(move_ball_and_paddle(s, keys),
                                                    draw.sizes),
                        draw)))),
                draw.tags)))))

\* handle_events, lines 190-193.
focus_event(s, event) ==
    IF event.type = "WINDOWFOCUSLOST" THEN [s EXCEPT !.focused = FALSE]
    ELSE IF event.type = "WINDOWFOCUSGAINED" THEN [s EXCEPT !.focused = TRUE]
    ELSE s

\* handle_events, lines 197-198: both text boxes see the event.
text_event(s, event) ==
    [s EXCEPT
       !.username_input =
           TextInputBox_handle_event(s.username_input, "username_input", event),
       !.password_input =
           TextInputBox_handle_event(s.password_input, "password_input", event)]

\* handle_events, lines 200-203.
button_event(s, event) ==
    IF Button_handle_event("login_button", event) THEN BreakoutGame_login_user(s)
    ELSE IF Button_handle_event("register_button", event)
    THEN BreakoutGame_register_user(s)
    ELSE s

\* handle_events, lines 196-203.
main_menu_event(s, event) ==
    IF s.game_state = MAIN_MENU THEN button_event(text_event(s, event), event) ELSE s

\* handle_events, lines 206-210.
post_login_menu_event(s, event) ==
    IF s.game_state = POST_LOGIN_MENU /\ event.type = "KEYDOWN" /\ event.key = "K_RETURN"
    THEN [s EXCEPT !.game_state = GAME_RUNNING]
    ELSE s

\* Lines 213-217 pausing on Enter, the key that starts and resumes the game.
game_running_event_on_return(s, event) ==
    IF s.game_state = GAME_RUNNING /\ event.type = "KEYDOWN" /\ event.key = "K_RETURN"
    THEN [s EXCEPT !.game_state = PAUSED]
    ELSE s

\* handle_events, lines 213-217.
game_running_event(s, event) ==
    IF s.game_state = GAME_RUNNING /\ event.type = "KEYDOWN" /\ event.key = "K_p"
    THEN [s EXCEPT !.game_state = PAUSED]
    ELSE s

\* handle_events, lines 220-223.
paused_event(s, event) ==
    IF s.game_state = PAUSED /\ event.type = "KEYDOWN" /\ event.key = "K_RETURN"
    THEN [s EXCEPT !.game_state = GAME_RUNNING]
    ELSE s

\* handle_events, lines 226-228.
game_over_event(s, event) ==
    IF s.game_state = GAME_OVER /\ event.type = "KEYDOWN" /\ event.key = "K_r"
    THEN reset_game(s)
    ELSE s

\* BreakoutGame.handle_events, the body of the loop for one event.  The
\* branches test the state one after the other, each the state the branch
\* before it left.  (pygame.QUIT ends the process and is not an event here.)
handle_events(s, event) ==
    game_over_event(paused_event(game_running_event(post_login_menu_event(
        main_menu_event(focus_event(s, event), event), event), event), event), event)

\* Lines 172-174 without the test of the focus.
update_unfocused(s, keys, draw) ==
    IF s.game_state = GAME_RUNNING THEN update_game(s, keys, draw) ELSE s

\* run, lines 172-174: update_game when focused and running.
update_if_focused(s, keys, draw) ==
    IF s.focused /\ s.game_state = GAME_RUNNING THEN update_game(s, keys, draw) ELSE s

\* BreakoutGame.draw_game: the screen of the state the game is in is drawn.
draw_game(s) == IF s.error # None THEN s ELSE [s EXCEPT !.screen = s.game_state]

\* run, line 178: the clock's tick.
clock_tick(s) == [s EXCEPT !.now = s.now + FrameMs]

\* ----------------------------------------------------------------- state
\* The fields of the BreakoutGame object (of screen, the display surface,
\* which of the five screens draw_game drew last), user_auth's users
\* dictionary, the clock (now: pygame.time.get_ticks(), in ms), the exception
\* what user_auth returned to its last call (returned), the exception that
\* ended the process (error), and the number of loop iterations made (frame).
VARIABLES paddle, ball, default_ball_dx, default_ball_dy, row_range, bricks,
          particles, fragments, level, score, current_high_score, lives,
          stage_bricks, active_power_up, power_ups, power_up_start_time,
          paddle_width_default, game_state, logged_in, current_user, focused,
          username_input, password_input, users, returned, screen, now, error,
          frame

vars == <<paddle, ball, default_ball_dx, default_ball_dy, row_range, bricks,
          particles, fragments, level, score, current_high_score, lives,
          stage_bricks, active_power_up, power_ups, power_up_start_time,
          paddle_width_default, game_state, logged_in, current_user, focused,
          username_input, password_input, users, returned, screen, now, error,
          frame>>

\* The program's state as one record, as the operators above take it.
self ==
    [paddle |-> paddle, ball |-> ball, default_ball_dx |-> default_ball_dx,
     default_ball_dy |-> default_ball_dy, row_range |-> row_range,
     bricks |-> bricks, particles |-> particles, fragments |-> fragments,
     level |-> level, score |-> score,
     current_high_score |-> current_high_score, lives |-> lives,
     stage_bricks |-> stage_bricks, active_power_up |-> active_power_up,
     power_ups |-> power_ups, power_up_start_time |-> power_up_start_time,
     paddle_width_default |-> paddle_width_default, game_state |-> game_state,
     logged_in |-> logged_in, current_user |-> current_user,
     focused |-> focused, username_input |-> username_input,
     password_input |-> password_input, users |-> users,
     returned |-> returned, screen |-> screen,
     now |-> now, error |-> error]

\* The variables take the fields of s.
Becomes(s) ==
    /\ paddle' = s.paddle
    /\ ball' = s.ball
    /\ default_ball_dx' = s.default_ball_dx
    /\ default_ball_dy' = s.default_ball_dy
    /\ row_range' = s.row_range
    /\ bricks' = s.bricks
    /\ particles' = s.particles
    /\ fragments' = s.fragments
    /\ level' = s.level
    /\ score' = s.score
    /\ current_high_score' = s.current_high_score
    /\ lives' = s.lives
    /\ stage_bricks' = s.stage_bricks
    /\ active_power_up' = s.active_power_up
    /\ power_ups' = s.power_ups
    /\ power_up_start_time' = s.power_up_start_time
    /\ paddle_width_default' = s.paddle_width_default
    /\ game_state' = s.game_state
    /\ logged_in' = s.logged_in
    /\ current_user' = s.current_user
    /\ focused' = s.focused
    /\ username_input' = s.username_input
    /\ password_input' = s.password_input
    /\ users' = s.users
    /\ returned' = s.returned
    /\ screen' = s.screen
    /\ now' = s.now
    /\ error' = s.error

Starts(s) ==
    /\ paddle = s.paddle
    /\ ball = s.ball
    /\ default_ball_dx = s.default_ball_dx
    /\ default_ball_dy = s.default_ball_dy
    /\ row_range = s.row_range
    /\ bricks = s.bricks
    /\ particles = s.particles
    /\ fragments = s.fragments
    /\ level = s.level
    /\ score = s.score
    /\ current_high_score = s.current_high_score
    /\ lives = s.lives
    /\ stage_bricks = s.stage_bricks
    /\ active_power_up = s.active_power_up
    /\ power_ups = s.power_ups
    /\ power_up_start_time = s.power_up_start_time
    /\ paddle_width_default = s.paddle_width_default
    /\ game_state = s.game_state
    /\ logged_in = s.logged_in
    /\ current_user = s.current_user
    /\ focused = s.focused
    /\ username_input = s.username_input
    /\ password_input = s.password_input
    /\ users = s.users
    /\ returned = s.returned
    /\ screen = s.screen
    /\ now = s.now
    /\ error = s.error

\* ------------------------------------------------------------------ Init
\* users.json as load_users_from_file finds it: missing or empty, or holding
\* the account "p" (password "r") a former run of the game registered.
NoUsers == [u \in {} |-> [password |-> Hash(<<>>), high_score |-> 0]]
Account(username, password, high_score) ==
    [u \in {username} |-> [password |-> Hash(password), high_score |-> high_score]]
UsersFiles == {NoUsers, Account(<<"p">>, <<"r">>, 0)}

\* The states BreakoutGame() constructs.
Constructed == {BreakoutGame(file, tags, 0) : file \in UsersFiles, tags \in TagDraws}

\* ----------------------------------------------------------- games played
\* States late in a game, each reached from a constructed state by the
\* login of "p" and the play described, which spare the exploration the
\* thousands of ticks that lead there.  The particles and fragments spawned
\* on the way took the first of SizeDraws and FragmentDraws.

\* A grid without the bricks broken so far (by their place in the grid).
Remaining(grid, broken) ==
    LET left == {i \in 1..Len(grid) : i \notin broken}
        nth(k) == CHOOSE i \in left : Cardinality({j \in left : j < i}) = k - 1
    IN  [k \in 1..Cardinality(left) |-> grid[nth(k)]]

\* The third ball about to be lost.  An untagged grid; the player keeps the
\* paddle away from the ball for 364 ticks: bricks broken at ticks 29, 149 and
\* 275, balls lost at ticks 116 and 240.  The account's high score is
\* high_score: 0, or the 5000 of a game played before this one.
LastBall(high_score) ==
    [paddle |-> [x |-> 197, width |-> 100],
     ball |-> [x |-> 550, y |-> 560, dx |-> -5000000, dy |-> 5000000,
              trail |-> <<<<660, 470>>, <<655, 475>>, <<650, 480>>, <<645, 485>>, <<640, 490>>,
                  <<635, 495>>, <<630, 500>>, <<625, 505>>, <<620, 510>>, <<615, 515>>,
                  <<610, 520>>, <<605, 525>>, <<600, 530>>, <<595, 535>>, <<590, 540>>,
                  <<585, 545>>, <<580, 550>>, <<575, 555>>, <<570, 560>>, <<565, 565>>>>],
     default_ball_dx |-> 5000000,
     default_ball_dy |-> 5000000,
     row_range |-> 5,
     bricks |-> Remaining(create_bricks(5, 10, NoTags),
                          {38, 47, 48}),
     particles |-> <<>>,
     fragments |-> <<>>,
     level |-> 1,
     score |-> 300,
     current_high_score |-> high_score,
     lives |-> 1,
     stage_bricks |-> 47,
     active_power_up |-> None,
     power_ups |-> <<>>,
     power_up_start_time |-> 0,
     paddle_width_default |-> 100,
     game_state |-> 1,
     logged_in |-> TRUE,
     current_user |-> <<"p">>,
     focused |-> TRUE,
     username_input |-> [text |-> <<"p">>, active |-> FALSE],
     password_input |-> [text |-> <<"p">>, active |-> FALSE],
     users |-> Account(<<"p">>, <<"p">>, high_score),
     returned |-> Returns("int", high_score),
     screen |-> 1,
     now |-> 6188,
     error |-> None]

\* A ball about to be lost while an extra life falls beside it.  Bricks
\* (4, 6) and (4, 7) are tagged extra_life; the paddle stays at 350 until the
\* first ball is lost (tick 116), waits at 440, where the second ball is lost
\* (tick 240) and the first power-up caught (tick 244), and goes to 629; 364
\* ticks are made.
SecondBall ==
    [paddle |-> [x |-> 629, width |-> 100],
     ball |-> [x |-> 550, y |-> 560, dx |-> -5000000, dy |-> 5000000,
              trail |-> <<<<660, 470>>, <<655, 475>>, <<650, 480>>, <<645, 485>>, <<640, 490>>,
                  <<635, 495>>, <<630, 500>>, <<625, 505>>, <<620, 510>>, <<615, 515>>,
                  <<610, 520>>, <<605, 525>>, <<600, 530>>, <<595, 535>>, <<590, 540>>,
                  <<585, 545>>, <<580, 550>>, <<575, 555>>, <<570, 560>>, <<565, 565>>>>],
     default_ball_dx |-> 5000000,
     default_ball_dy |-> 5000000,
     row_range |-> 5,
     bricks |-> Remaining(create_bricks(5, 10, (<<4, 6>> :> "extra_life") @@ (<<4, 7>> :> "extra_life")),
                          {38, 47, 48}),
     particles |-> <<>>,
     fragments |-> <<>>,
     level |-> 1,
     score |-> 300,
     current_high_score |-> 0,
     lives |-> 2,
     stage_bricks |-> 47,
     active_power_up |-> "extra_life",
     power_ups |-> <<PowerUp(595, 562, "extra_life")>>,
     power_up_start_time |-> 4131,
     paddle_width_default |-> 100,
     game_state |-> 1,
     logged_in |-> TRUE,
     current_user |-> <<"p">>,
     focused |-> TRUE,
     username_input |-> [text |-> <<"p">>, active |-> FALSE],
     password_input |-> [text |-> <<"p">>, active |-> FALSE],
     users |-> Account(<<"p">>, <<"p">>, 0),
     returned |-> Returns("int", 0),
     screen |-> 1,
     now |-> 6188,
     error |-> None]

\* The ball about to break brick (4, 9), tagged increase_paddle_size, and to
\* meet the right wall: 698 ticks of a paddle that follows the ball.
BrickByTheWall ==
    [paddle |-> [x |-> 692, width |-> 100],
     ball |-> [x |-> 760, y |-> 160, dx |-> 5000000, dy |-> -5000000,
              trail |-> <<<<670, 270>>, <<675, 265>>, <<680, 260>>, <<685, 255>>, <<690, 250>>,
                  <<695, 245>>, <<700, 240>>, <<705, 235>>, <<710, 230>>, <<715, 225>>,
                  <<720, 220>>, <<725, 215>>, <<730, 210>>, <<735, 205>>, <<740, 200>>,
                  <<745, 195>>, <<750, 190>>, <<755, 185>>, <<760, 180>>, <<765, 175>>>>],
     default_ball_dx |-> 5000000,
     default_ball_dy |-> 5000000,
     row_range |-> 5,
     bricks |-> Remaining(create_bricks(5, 10, (<<4, 9>> :> "increase_paddle_size")),
                          {41, 43, 47, 49}),
     particles |-> <<>>,
     fragments |-> <<>>,
     level |-> 1,
     score |-> 400,
     current_high_score |-> 0,
     lives |-> 3,
     stage_bricks |-> 46,
     active_power_up |-> None,
     power_ups |-> <<>>,
     power_up_start_time |-> 0,
     paddle_width_default |-> 100,
     game_state |-> 1,
     logged_in |-> TRUE,
     current_user |-> <<"p">>,
     focused |-> TRUE,
     username_input |-> [text |-> <<"p">>, active |-> FALSE],
     password_input |-> [text |-> <<"p">>, active |-> FALSE],
     users |-> Account(<<"p">>, <<"p">>, 0),
     returned |-> Returns("int", 0),
     screen |-> 1,
     now |-> 11866,
     error |-> None]

\* The same game 214 ticks later: the paddle has followed the ball to tick
\* 790 and gone to the far right (x = 692) under the falling power-up.
WiderPaddle ==
    [paddle |-> [x |-> 692, width |-> 100],
     ball |-> [x |-> 270, y |-> 320, dx |-> 5000000, dy |-> 5000000,
              trail |-> <<<<180, 230>>, <<185, 235>>, <<190, 240>>, <<195, 245>>, <<200, 250>>,
                  <<205, 255>>, <<210, 260>>, <<215, 265>>, <<220, 270>>, <<225, 275>>,
                  <<230, 280>>, <<235, 285>>, <<240, 290>>, <<245, 295>>, <<250, 300>>,
                  <<255, 305>>, <<260, 310>>, <<265, 315>>, <<270, 320>>, <<275, 325>>>>],
     default_ball_dx |-> 5000000,
     default_ball_dy |-> 5000000,
     row_range |-> 5,
     bricks |-> Remaining(create_bricks(5, 10, (<<4, 9>> :> "increase_paddle_size")),
                          {41, 42, 43, 47, 49, 50}),
     particles |-> <<>>,
     fragments |-> <<[width |-> 1300, height |-> 100, fade_speed |-> 10],
         [width |-> 1300, height |-> 100, fade_speed |-> 10],
         [width |-> 1300, height |-> 100, fade_speed |-> 10],
         [width |-> 1300, height |-> 100, fade_speed |-> 10]>>,
     level |-> 1,
     score |-> 600,
     current_high_score |-> 0,
     lives |-> 3,
     stage_bricks |-> 44,
     active_power_up |-> None,
     power_ups |-> <<PowerUp(755, 554, "increase_paddle_size")>>,
     power_up_start_time |-> 0,
     paddle_width_default |-> 100,
     game_state |-> 1,
     logged_in |-> TRUE,
     current_user |-> <<"p">>,
     focused |-> TRUE,
     username_input |-> [text |-> <<"p">>, active |-> FALSE],
     password_input |-> [text |-> <<"p">>, active |-> FALSE],
     users |-> Account(<<"p">>, <<"p">>, 0),
     returned |-> Returns("int", 0),
     screen |-> 1,
     now |-> 15504,
     error |-> None]

\* The ball about to break three bricks in one tick: an untagged grid and
\* 2680 ticks of a paddle that follows the ball.
ThreeBricks ==
    [paddle |-> [x |-> 224, width |-> 100],
     ball |-> [x |-> 250, y |-> 70, dx |-> -5000000, dy |-> -5000000,
              trail |-> <<<<360, 180>>, <<355, 175>>, <<350, 170>>, <<345, 165>>, <<340, 160>>,
                  <<335, 155>>, <<330, 150>>, <<325, 145>>, <<320, 140>>, <<315, 135>>,
                  <<310, 130>>, <<305, 125>>, <<300, 120>>, <<295, 115>>, <<290, 110>>,
                  <<285, 105>>, <<280, 100>>, <<275, 95>>, <<270, 90>>, <<265, 85>>>>],
     default_ball_dx |-> 5000000,
     default_ball_dy |-> 5000000,
     row_range |-> 5,
     bricks |-> Remaining(create_bricks(5, 10, NoTags),
                          {24, 25, 28, 29, 31, 34, 35, 38, 39, 41, 42, 43, 44, 45, 46, 47, 48, 49, 50}),
     particles |-> <<>>,
     fragments |-> <<>>,
     level |-> 1,
     score |-> 1900,
     current_high_score |-> 0,
     lives |-> 3,
     stage_bricks |-> 31,
     active_power_up |-> None,
     power_ups |-> <<>>,
     power_up_start_time |-> 0,
     paddle_width_default |-> 100,
     game_state |-> 1,
     logged_in |-> TRUE,
     current_user |-> <<"p">>,
     focused |-> TRUE,
     username_input |-> [text |-> <<"p">>, active |-> FALSE],
     password_input |-> [text |-> <<"p">>, active |-> FALSE],
     users |-> Account(<<"p">>, <<"p">>, 0),
     returned |-> Returns("int", 0),
     screen |-> 1,
     now |-> 45560,
     error |-> None]

\* The same game after 6776 ticks: the ball about to meet the top wall and
\* then the left wall.
TopLeftCorner ==
    [paddle |-> [x |-> 17, width |-> 100],
     ball |-> [x |-> 50, y |-> 20, dx |-> -5000000, dy |-> -5000000,
              trail |-> <<<<160, 130>>, <<155, 125>>, <<150, 120>>, <<145, 115>>, <<140, 110>>,
                  <<135, 105>>, <<130, 100>>, <<125, 95>>, <<120, 90>>, <<115, 85>>, <<110, 80>>,
                  <<105, 75>>, <<100, 70>>, <<95, 65>>, <<90, 60>>, <<85, 55>>, <<80, 50>>,
                  <<75, 45>>, <<70, 40>>, <<65, 35>>>>],
     default_ball_dx |-> 5000000,
     default_ball_dy |-> 5000000,
     row_range |-> 5,
     bricks |-> <<Brick(650, 10, None), Brick(730, 10, None), Brick(730, 40, None)>>,
     particles |-> <<>>,
     fragments |-> <<>>,
     level |-> 1,
     score |-> 4700,
     current_high_score |-> 0,
     lives |-> 3,
     stage_bricks |-> 3,
     active_power_up |-> None,
     power_ups |-> <<>>,
     power_up_start_time |-> 0,
     paddle_width_default |-> 100,
     game_state |-> 1,
     logged_in |-> TRUE,
     current_user |-> <<"p">>,
     focused |-> TRUE,
     username_input |-> [text |-> <<"p">>, active |-> FALSE],
     password_input |-> [text |-> <<"p">>, active |-> FALSE],
     users |-> Account(<<"p">>, <<"p">>, 0),
     returned |-> Returns("int", 0),
     screen |-> 1,
     now |-> 115192,
     error |-> None]

\* The same game after 10357 ticks: the ball about to break the last brick
\* of level 1.
LastBrick ==
    [paddle |-> [x |-> 647, width |-> 100],
     ball |-> [x |-> 695, y |-> 35, dx |-> 5000000, dy |-> -5000000,
              trail |-> <<<<605, 145>>, <<610, 140>>, <<615, 135>>, <<620, 130>>, <<625, 125>>,
                  <<630, 120>>, <<635, 115>>, <<640, 110>>, <<645, 105>>, <<650, 100>>,
                  <<655, 95>>, <<660, 90>>, <<665, 85>>, <<670, 80>>, <<675, 75>>, <<680, 70>>,
                  <<685, 65>>, <<690, 60>>, <<695, 55>>, <<700, 50>>>>],
     default_ball_dx |-> 5000000,
     default_ball_dy |-> 5000000,
     row_range |-> 5,
     bricks |-> <<Brick(730, 10, None)>>,
     particles |-> <<>>,
     fragments |-> <<>>,
     level |-> 1,
     score |-> 4900,
     current_high_score |-> 0,
     lives |-> 3,
     stage_bricks |-> 1,
     active_power_up |-> None,
     power_ups |-> <<>>,
     power_up_start_time |-> 0,
     paddle_width_default |-> 100,
     game_state |-> 1,
     logged_in |-> TRUE,
     current_user |-> <<"p">>,
     focused |-> TRUE,
     username_input |-> [text |-> <<"p">>, active |-> FALSE],
     password_input |-> [text |-> <<"p">>, active |-> FALSE],
     users |-> Account(<<"p">>, <<"p">>, 0),
     returned |-> Returns("int", 0),
     screen |-> 1,
     now |-> 176069,
     error |-> None]

\* The same game 353 ticks later, at level 2 (an untagged grid): the paddle
\* has kept away from the ball, and the third ball is about to be lost.
LastBallLevel2 ==
    [paddle |-> [x |-> 197, width |-> 100],
     ball |-> [x |-> 550, y |-> 560, dx |-> -5000000, dy |-> 5000000,
              trail |-> <<<<660, 470>>, <<655, 475>>, <<650, 480>>, <<645, 485>>, <<640, 490>>,
                  <<635, 495>>, <<630, 500>>, <<625, 505>>, <<620, 510>>, <<615, 515>>,
                  <<610, 520>>, <<605, 525>>, <<600, 530>>, <<595, 535>>, <<590, 540>>,
                  <<585, 545>>, <<580, 550>>, <<575, 555>>, <<570, 560>>, <<565, 565>>>>],
     default_ball_dx |-> 5500000,
     default_ball_dy |-> -5500000,
     row_range |-> 6,
     bricks |-> Remaining(create_bricks(6, 10, NoTags),
                          {38, 47, 48, 57, 58}),
     particles |-> <<>>,
     fragments |-> <<>>,
     level |-> 2,
     score |-> 6000,
     current_high_score |-> 0,
     lives |-> 1,
     stage_bricks |-> 55,
     active_power_up |-> None,
     power_ups |-> <<>>,
     power_up_start_time |-> 0,
     paddle_width_default |-> 100,
     game_state |-> 1,
     logged_in |-> TRUE,
     current_user |-> <<"p">>,
     focused |-> TRUE,
     username_input |-> [text |-> <<"p">>, active |-> FALSE],
     password_input |-> [text |-> <<"p">>, active |-> FALSE],
     users |-> Account(<<"p">>, <<"p">>, 0),
     returned |-> Returns("int", 0),
     screen |-> 1,
     now |-> 182121,
     error |-> None]

\* The game after that one: the ball was lost, R and Enter pressed, and the
\* paddle has followed the ball for 10357 ticks; the ball is about to break
\* the last brick of level 1.
LastBrickAgain ==
    [paddle |-> [x |-> 647, width |-> 100],
     ball |-> [x |-> 695, y |-> 35, dx |-> 5000000, dy |-> -5000000,
              trail |-> <<<<605, 145>>, <<610, 140>>, <<615, 135>>, <<620, 130>>, <<625, 125>>,
                  <<630, 120>>, <<635, 115>>, <<640, 110>>, <<645, 105>>, <<650, 100>>,
                  <<655, 95>>, <<660, 90>>, <<665, 85>>, <<670, 80>>, <<675, 75>>, <<680, 70>>,
                  <<685, 65>>, <<690, 60>>, <<695, 55>>, <<700, 50>>>>],
     default_ball_dx |-> 5500000,
     default_ball_dy |-> -5500000,
     row_range |-> 6,
     bricks |-> <<Brick(730, 10, None)>>,
     particles |-> <<>>,
     fragments |-> <<>>,
     level |-> 1,
     score |-> 4900,
     current_high_score |-> 6000,
     lives |-> 3,
     stage_bricks |-> 1,
     active_power_up |-> None,
     power_ups |-> <<>>,
     power_up_start_time |-> 0,
     paddle_width_default |-> 100,
     game_state |-> 1,
     logged_in |-> TRUE,
     current_user |-> <<"p">>,
     focused |-> TRUE,
     username_input |-> [text |-> <<"p">>, active |-> FALSE],
     password_input |-> [text |-> <<"p">>, active |-> FALSE],
     users |-> Account(<<"p">>, <<"p">>, 6000),
     returned |-> Returns("int", 6000),
     screen |-> 1,
     now |-> 358258,
     error |-> None]

\* A slow ball about to be restored at level 2.  Level 1 was cleared as in
\* LastBrick; brick (5, 6) of the new grid is tagged slow_ball and broken at
\* the 23rd tick of the level; the paddle follows the ball, catches the
\* power-up at the 236th tick, and the game is paused at once for 291
\* iterations and resumed, the paused screen still on the display.
SlowBallLevel2 ==
    [paddle |-> [x |-> 422, width |-> 100],
     ball |-> [x |-> 10, y |-> 460, dx |-> 3850000, dy |-> 3850000,
              trail |-> <<<<100, 370>>, <<95, 375>>, <<90, 380>>, <<85, 385>>, <<80, 390>>,
                  <<75, 395>>, <<70, 400>>, <<65, 405>>, <<60, 410>>, <<55, 415>>, <<50, 420>>,
                  <<45, 425>>, <<40, 430>>, <<35, 435>>, <<30, 440>>, <<25, 445>>, <<20, 450>>,
                  <<15, 455>>, <<10, 460>>, <<15, 465>>>>],
     default_ball_dx |-> 5500000,
     default_ball_dy |-> -5500000,
     row_range |-> 6,
     bricks |-> Remaining(create_bricks(6, 10, (<<5, 6>> :> "slow_ball")),
                          {54, 57}),
     particles |-> <<>>,
     fragments |-> <<>>,
     level |-> 2,
     score |-> 5400,
     current_high_score |-> 0,
     lives |-> 3,
     stage_bricks |-> 58,
     active_power_up |-> "slow_ball",
     power_ups |-> <<>>,
     power_up_start_time |-> 180132,
     paddle_width_default |-> 100,
     game_state |-> 1,
     logged_in |-> TRUE,
     current_user |-> <<"p">>,
     focused |-> TRUE,
     username_input |-> [text |-> <<"p">>, active |-> FALSE],
     password_input |-> [text |-> <<"p">>, active |-> FALSE],
     users |-> Account(<<"p">>, <<"p">>, 0),
     returned |-> Returns("int", 0),
     screen |-> 2,
     now |-> 185096,
     error |-> None]

\* Particles about to die: an untagged grid and 135 ticks of a paddle that
\* follows the ball; the ball met the paddle at tick 113, and the burst took
\* the second of SizeDraws.
FadingParticles ==
    [paddle |-> [x |-> 467, width |-> 100],
     ball |-> [x |-> 495, y |-> 455, dx |-> -5000000, dy |-> -5000000,
              trail |-> <<<<605, 565>>, <<600, 560>>, <<595, 555>>, <<590, 550>>, <<585, 545>>, <<580, 540>>, <<575, 535>>, <<570, 530>>, <<565, 525>>, <<560, 520>>, <<555, 515>>, <<550, 510>>, <<545, 505>>, <<540, 500>>, <<535, 495>>, <<530, 490>>, <<525, 485>>, <<520, 480>>, <<515, 475>>, <<510, 470>>>>],
     default_ball_dx |-> 5000000,
     default_ball_dy |-> 5000000,
     row_range |-> 5,
     bricks |-> Remaining(create_bricks(5, 10, NoTags),
                          {47}),
     particles |-> <<[size |-> 2, lifetime |-> 27], [size |-> 7, lifetime |-> 27], [size |-> 12, lifetime |-> 27], [size |-> 17, lifetime |-> 27], [size |-> 22, lifetime |-> 27], [size |-> 27, lifetime |-> 27], [size |-> 27, lifetime |-> 27], [size |-> 22, lifetime |-> 27], [size |-> 17, lifetime |-> 27], [size |-> 12, lifetime |-> 27]>>,
     fragments |-> <<>>,
     level |-> 1,
     score |-> 100,
     current_high_score |-> 0,
     lives |-> 3,
     stage_bricks |-> 49,
     active_power_up |-> None,
     power_ups |-> <<>>,
     power_up_start_time |-> 0,
     paddle_width_default |-> 100,
     game_state |-> 1,
     logged_in |-> TRUE,
     current_user |-> <<"p">>,
     focused |-> TRUE,
     username_input |-> [text |-> <<"p">>, active |-> FALSE],
     password_input |-> [text |-> <<"p">>, active |-> FALSE],
     users |-> Account(<<"p">>, <<"p">>, 0),
     returned |-> Returns("int", 0),
     screen |-> 1,
     now |-> 2295,
     error |-> None]

\* The ball about to break two bricks in one tick: an untagged grid and 1728
\* ticks of a paddle that follows the ball.
TwoBricks ==
    [paddle |-> [x |-> 296, width |-> 100],
     ball |-> [x |-> 330, y |-> 130, dx |-> -5000000, dy |-> -5000000,
              trail |-> <<<<440, 240>>, <<435, 235>>, <<430, 230>>, <<425, 225>>, <<420, 220>>, <<415, 215>>, <<410, 210>>, <<405, 205>>, <<400, 200>>, <<395, 195>>, <<390, 190>>, <<385, 185>>, <<380, 180>>, <<375, 175>>, <<370, 170>>, <<365, 165>>, <<360, 160>>, <<355, 155>>, <<350, 150>>, <<345, 145>>>>],
     default_ball_dx |-> 5000000,
     default_ball_dy |-> 5000000,
     row_range |-> 5,
     bricks |-> Remaining(create_bricks(5, 10, NoTags),
                          {41, 42, 43, 44, 45, 46, 47, 48, 49, 50}),
     particles |-> <<>>,
     fragments |-> <<>>,
     level |-> 1,
     score |-> 1000,
     current_high_score |-> 0,
     lives |-> 3,
     stage_bricks |-> 40,
     active_power_up |-> None,
     power_ups |-> <<>>,
     power_up_start_time |-> 0,
     paddle_width_default |-> 100,
     game_state |-> 1,
     logged_in |-> TRUE,
     current_user |-> <<"p">>,
     focused |-> TRUE,
     username_input |-> [text |-> <<"p">>, active |-> FALSE],
     password_input |-> [text |-> <<"p">>, active |-> FALSE],
     users |-> Account(<<"p">>, <<"p">>, 0),
     returned |-> Returns("int", 0),
     screen |-> 1,
     now |-> 29376,
     error |-> None]

\* The same game 15 ticks later, the paddle still at 629: the second to
\* last ball was lost at tick 368, and the second power-up has fallen past the
\* paddle.
PowerUpPastPaddle ==
    [paddle |-> [x |-> 629, width |-> 100],
     ball |-> [x |-> 445, y |-> 235, dx |-> 5000000, dy |-> -5000000,
              trail |-> <<<<400, 300>>, <<405, 295>>, <<410, 290>>, <<415, 285>>, <<420, 280>>, <<425, 275>>, <<430, 270>>, <<435, 265>>, <<440, 260>>, <<445, 255>>, <<450, 250>>>>],
     default_ball_dx |-> 5000000,
     default_ball_dy |-> 5000000,
     row_range |-> 5,
     bricks |-> Remaining(create_bricks(5, 10, (<<4, 6>> :> "extra_life") @@ (<<4, 7>> :> "extra_life")),
                          {38, 47, 48}),
     particles |-> <<>>,
     fragments |-> <<>>,
     level |-> 1,
     score |-> 300,
     current_high_score |-> 0,
     lives |-> 1,
     stage_bricks |-> 47,
     active_power_up |-> "extra_life",
     power_ups |-> <<PowerUp(595, 592, "extra_life")>>,
     power_up_start_time |-> 4131,
     paddle_width_default |-> 100,
     game_state |-> 1,
     logged_in |-> TRUE,
     current_user |-> <<"p">>,
     focused |-> TRUE,
     username_input |-> [text |-> <<"p">>, active |-> FALSE],
     password_input |-> [text |-> <<"p">>, active |-> FALSE],
     users |-> Account(<<"p">>, <<"p">>, 0),
     returned |-> Returns("int", 0),
     screen |-> 1,
     now |-> 6443,
     error |-> None]

\* Level 2 (an untagged grid) 100 ticks after level 1 was cleared as in
\* LastBrick: the paddle has kept away from the ball, which is about to be lost
\* for the first time.
FirstBallLevel2 ==
    [paddle |-> [x |-> 251, width |-> 100],
     ball |-> [x |-> 670, y |-> 560, dx |-> -5500000, dy |-> 5500000,
              trail |-> <<<<780, 470>>, <<775, 475>>, <<770, 480>>, <<765, 485>>, <<760, 490>>, <<755, 495>>, <<750, 500>>, <<745, 505>>, <<740, 510>>, <<735, 515>>, <<730, 520>>, <<725, 525>>, <<720, 530>>, <<715, 535>>, <<710, 540>>, <<705, 545>>, <<700, 550>>, <<695, 555>>, <<690, 560>>, <<685, 565>>>>],
     default_ball_dx |-> 5500000,
     default_ball_dy |-> -5500000,
     row_range |-> 6,
     bricks |-> Remaining(create_bricks(6, 10, NoTags),
                          {57}),
     particles |-> <<>>,
     fragments |-> <<>>,
     level |-> 2,
     score |-> 5200,
     current_high_score |-> 0,
     lives |-> 3,
     stage_bricks |-> 59,
     active_power_up |-> None,
     power_ups |-> <<>>,
     power_up_start_time |-> 0,
     paddle_width_default |-> 100,
     game_state |-> 1,
     logged_in |-> TRUE,
     current_user |-> <<"p">>,
     focused |-> TRUE,
     username_input |-> [text |-> <<"p">>, active |-> FALSE],
     password_input |-> [text |-> <<"p">>, active |-> FALSE],
     users |-> Account(<<"p">>, <<"p">>, 0),
     returned |-> Returns("int", 0),
     screen |-> 1,
     now |-> 177837,
     error |-> None]

\* Level 2 (an untagged grid) 20 ticks after level 1 was cleared as in
\* LastBrick, the paddle following the ball: the ball is about to break its
\* first brick of the level.
BrickAtLevel2 ==
    [paddle |-> [x |-> 440, width |-> 100],
     ball |-> [x |-> 490, y |-> 190, dx |-> 5500000, dy |-> -5500000,
              trail |-> <<<<400, 300>>, <<405, 295>>, <<410, 290>>, <<415, 285>>, <<420, 280>>, <<425, 275>>, <<430, 270>>, <<435, 265>>, <<440, 260>>, <<445, 255>>, <<450, 250>>, <<455, 245>>, <<460, 240>>, <<465, 235>>, <<470, 230>>, <<475, 225>>, <<480, 220>>, <<485, 215>>, <<490, 210>>, <<495, 205>>>>],
     default_ball_dx |-> 5500000,
     default_ball_dy |-> -5500000,
     row_range |-> 6,
     bricks |-> Remaining(create_bricks(6, 10, NoTags),
                          {}),
     particles |-> <<>>,
     fragments |-> <<>>,
     level |-> 2,
     score |-> 5000,
     current_high_score |-> 0,
     lives |-> 3,
     stage_bricks |-> 60,
     active_power_up |-> None,
     power_ups |-> <<>>,
     power_up_start_time |-> 0,
     paddle_width_default |-> 100,
     game_state |-> 1,
     logged_in |-> TRUE,
     current_user |-> <<"p">>,
     focused |-> TRUE,
     username_input |-> [text |-> <<"p">>, active |-> FALSE],
     password_input |-> [text |-> <<"p">>, active |-> FALSE],
     users |-> Account(<<"p">>, <<"p">>, 0),
     returned |-> Returns("int", 0),
     screen |-> 1,
     now |-> 176477,
     error |-> None]

\* Two slow balls about to be caught together.  Bricks (3, 3) and (3, 4)
\* are tagged slow_ball; the paddle follows the ball until the ball breaks
\* both in one tick, the 1731st, and then goes to x = 269 and waits there
\* under both power-ups: the second ball is lost on the way, and the
\* power-ups reach the paddle in the third tick from here.
TwoSlowBalls ==
    [paddle |-> [x |-> 269, width |-> 100],
     ball |-> [x |-> 560, y |-> 550, dx |-> -5000000, dy |-> 5000000,
              trail |-> <<<<670, 460>>, <<665, 465>>, <<660, 470>>, <<655, 475>>, <<650, 480>>, <<645, 485>>, <<640, 490>>, <<635, 495>>, <<630, 500>>, <<625, 505>>, <<620, 510>>, <<615, 515>>, <<610, 520>>, <<605, 525>>, <<600, 530>>, <<595, 535>>, <<590, 540>>, <<585, 545>>, <<580, 550>>, <<575, 555>>>>],
     default_ball_dx |-> 5000000,
     default_ball_dy |-> 5000000,
     row_range |-> 5,
     bricks |-> Remaining(create_bricks(5, 10, (<<3, 3>> :> "slow_ball") @@ (<<3, 4>> :> "slow_ball")),
                          {24, 34, 35, 38, 41, 42, 43, 44, 45, 46, 47, 48, 49, 50}),
     particles |-> <<>>,
     fragments |-> <<>>,
     level |-> 1,
     score |-> 1400,
     current_high_score |-> 0,
     lives |-> 2,
     stage_bricks |-> 36,
     active_power_up |-> None,
     power_ups |-> <<PowerUp(275, 556, "slow_ball"), PowerUp(355, 556, "slow_ball")>>,
     power_up_start_time |-> 0,
     paddle_width_default |-> 100,
     game_state |-> 1,
     logged_in |-> TRUE,
     current_user |-> <<"p">>,
     focused |-> TRUE,
     username_input |-> [text |-> <<"p">>, active |-> FALSE],
     password_input |-> [text |-> <<"p">>, active |-> FALSE],
     users |-> Account(<<"p">>, <<"p">>, 0),
     returned |-> Returns("int", 0),
     screen |-> 1,
     now |-> 33286,
     error |-> None]

\* An extra life about to be caught.  Brick (4, 6) is tagged extra_life and
\* brick (4, 2) increase_paddle_size; the paddle follows the ball, and goes
\* under a power-up once it has fallen below y = 330.  241 ticks are made; the
\* extra life reaches the paddle in the third tick from here.
ExtraLifeFalling ==
    [paddle |-> [x |-> 476, width |-> 100],
     ball |-> [x |-> 35, y |-> 365, dx |-> 5000000, dy |-> 5000000,
              trail |-> <<<<75, 275>>, <<70, 280>>, <<65, 285>>, <<60, 290>>, <<55, 295>>, <<50, 300>>, <<45, 305>>, <<40, 310>>, <<35, 315>>, <<30, 320>>, <<25, 325>>, <<20, 330>>, <<15, 335>>, <<10, 340>>, <<15, 345>>, <<20, 350>>, <<25, 355>>, <<30, 360>>, <<35, 365>>, <<40, 370>>>>],
     default_ball_dx |-> 5000000,
     default_ball_dy |-> 5000000,
     row_range |-> 5,
     bricks |-> Remaining(create_bricks(5, 10, (<<4, 2>> :> "increase_paddle_size") @@ (<<4, 6>> :> "extra_life")),
                          {43, 47}),
     particles |-> <<>>,
     fragments |-> <<[width |-> 1250, height |-> 50, fade_speed |-> 10], [width |-> 1250, height |-> 50, fade_speed |-> 10], [width |-> 1250, height |-> 50, fade_speed |-> 10], [width |-> 1250, height |-> 50, fade_speed |-> 10]>>,
     level |-> 1,
     score |-> 200,
     current_high_score |-> 0,
     lives |-> 3,
     stage_bricks |-> 48,
     active_power_up |-> None,
     power_ups |-> <<PowerUp(515, 556, "extra_life"), PowerUp(195, 220, "increase_paddle_size")>>,
     power_up_start_time |-> 0,
     paddle_width_default |-> 100,
     game_state |-> 1,
     logged_in |-> TRUE,
     current_user |-> <<"p">>,
     focused |-> TRUE,
     username_input |-> [text |-> <<"p">>, active |-> FALSE],
     password_input |-> [text |-> <<"p">>, active |-> FALSE],
     users |-> Account(<<"p">>, <<"p">>, 0),
     returned |-> Returns("int", 0),
     screen |-> 1,
     now |-> 4097,
     error |-> None]

\* The same game 168 ticks later, the extra_life effect 2805 ms old: the
\* increase_paddle_size power-up reaches the paddle in the third tick from
\* here.
ExtraLifeReplaced ==
    [paddle |-> [x |-> 161, width |-> 100],
     ball |-> [x |-> 685, y |-> 365, dx |-> -5000000, dy |-> 5000000,
              trail |-> <<<<785, 275>>, <<790, 280>>, <<785, 285>>, <<780, 290>>, <<775, 295>>, <<770, 300>>, <<765, 305>>, <<760, 310>>, <<755, 315>>, <<750, 320>>, <<745, 325>>, <<740, 330>>, <<735, 335>>, <<730, 340>>, <<725, 345>>, <<720, 350>>, <<715, 355>>, <<710, 360>>, <<705, 365>>, <<700, 370>>>>],
     default_ball_dx |-> 5000000,
     default_ball_dy |-> 5000000,
     row_range |-> 5,
     bricks |-> Remaining(create_bricks(5, 10, (<<4, 2>> :> "increase_paddle_size") @@ (<<4, 6>> :> "extra_life")),
                          {43, 47, 49}),
     particles |-> <<>>,
     fragments |-> <<[width |-> 1250, height |-> 50, fade_speed |-> 10], [width |-> 1250, height |-> 50, fade_speed |-> 10], [width |-> 1250, height |-> 50, fade_speed |-> 10], [width |-> 1250, height |-> 50, fade_speed |-> 10]>>,
     level |-> 1,
     score |-> 300,
     current_high_score |-> 0,
     lives |-> 4,
     stage_bricks |-> 47,
     active_power_up |-> "extra_life",
     power_ups |-> <<PowerUp(195, 556, "increase_paddle_size")>>,
     power_up_start_time |-> 4131,
     paddle_width_default |-> 100,
     game_state |-> 1,
     logged_in |-> TRUE,
     current_user |-> <<"p">>,
     focused |-> TRUE,
     username_input |-> [text |-> <<"p">>, active |-> FALSE],
     password_input |-> [text |-> <<"p">>, active |-> FALSE],
     users |-> Account(<<"p">>, <<"p">>, 0),
     returned |-> Returns("int", 0),
     screen |-> 1,
     now |-> 6953,
     error |-> None]

\* The game of ExtraLifeReplaced with brick (4, 2) tagged slow_ball: the
\* slow_ball power-up reaches the paddle in the third tick from here.
ExtraLifeSlowed ==
    [paddle |-> [x |-> 161, width |-> 100],
     ball |-> [x |-> 685, y |-> 365, dx |-> -5000000, dy |-> 5000000,
              trail |-> <<<<785, 275>>, <<790, 280>>, <<785, 285>>, <<780, 290>>, <<775, 295>>, <<770, 300>>, <<765, 305>>, <<760, 310>>, <<755, 315>>, <<750, 320>>, <<745, 325>>, <<740, 330>>, <<735, 335>>, <<730, 340>>, <<725, 345>>, <<720, 350>>, <<715, 355>>, <<710, 360>>, <<705, 365>>, <<700, 370>>>>],
     default_ball_dx |-> 5000000,
     default_ball_dy |-> 5000000,
     row_range |-> 5,
     bricks |-> Remaining(create_bricks(5, 10, (<<4, 2>> :> "slow_ball") @@ (<<4, 6>> :> "extra_life")),
                          {43, 47, 49}),
     particles |-> <<>>,
     fragments |-> <<[width |-> 1250, height |-> 50, fade_speed |-> 10], [width |-> 1250, height |-> 50, fade_speed |-> 10], [width |-> 1250, height |-> 50, fade_speed |-> 10], [width |-> 1250, height |-> 50, fade_speed |-> 10]>>,
     level |-> 1,
     score |-> 300,
     current_high_score |-> 0,
     lives |-> 4,
     stage_bricks |-> 47,
     active_power_up |-> "extra_life",
     power_ups |-> <<PowerUp(195, 556, "slow_ball")>>,
     power_up_start_time |-> 4131,
     paddle_width_default |-> 100,
     game_state |-> 1,
     logged_in |-> TRUE,
     current_user |-> <<"p">>,
     focused |-> TRUE,
     username_input |-> [text |-> <<"p">>, active |-> FALSE],
     password_input |-> [text |-> <<"p">>, active |-> FALSE],
     users |-> Account(<<"p">>, <<"p">>, 0),
     returned |-> Returns("int", 0),
     screen |-> 1,
     now |-> 6953,
     error |-> None]

\* The game of ExtraLifeFalling with no tag but the extra_life of brick
\* (4, 6), 536 ticks made: the extra_life effect, 4964 ms old, expires in the
\* third tick from here.
ExtraLifeEnding ==
    [paddle |-> [x |-> 17, width |-> 100],
     ball |-> [x |-> 50, y |-> 160, dx |-> -5000000, dy |-> 5000000,
              trail |-> <<<<160, 240>>, <<155, 235>>, <<150, 230>>, <<145, 225>>, <<140, 220>>, <<135, 215>>, <<130, 210>>, <<125, 205>>, <<120, 200>>, <<115, 195>>, <<110, 190>>, <<105, 185>>, <<100, 180>>, <<95, 175>>, <<90, 170>>, <<85, 165>>, <<80, 160>>, <<75, 155>>, <<70, 160>>, <<65, 165>>>>],
     default_ball_dx |-> 5000000,
     default_ball_dy |-> 5000000,
     row_range |-> 5,
     bricks |-> Remaining(create_bricks(5, 10, (<<4, 6>> :> "extra_life")),
                          {41, 43, 47, 49}),
     particles |-> <<[size |-> 21, lifetime |-> 46], [size |-> 21, lifetime |-> 46], [size |-> 21, lifetime |-> 46], [size |-> 21, lifetime |-> 46], [size |-> 21, lifetime |-> 46], [size |-> 21, lifetime |-> 46], [size |-> 21, lifetime |-> 46], [size |-> 21, lifetime |-> 46], [size |-> 21, lifetime |-> 46], [size |-> 21, lifetime |-> 46]>>,
     fragments |-> <<[width |-> 1660, height |-> 460, fade_speed |-> 10], [width |-> 1660, height |-> 460, fade_speed |-> 10], [width |-> 1660, height |-> 460, fade_speed |-> 10], [width |-> 1660, height |-> 460, fade_speed |-> 10]>>,
     level |-> 1,
     score |-> 400,
     current_high_score |-> 0,
     lives |-> 4,
     stage_bricks |-> 46,
     active_power_up |-> "extra_life",
     power_ups |-> <<>>,
     power_up_start_time |-> 4131,
     paddle_width_default |-> 100,
     game_state |-> 1,
     logged_in |-> TRUE,
     current_user |-> <<"p">>,
     focused |-> TRUE,
     username_input |-> [text |-> <<"p">>, active |-> FALSE],
     password_input |-> [text |-> <<"p">>, active |-> FALSE],
     users |-> Account(<<"p">>, <<"p">>, 0),
     returned |-> Returns("int", 0),
     screen |-> 1,
     now |-> 9112,
     error |-> None]

\* A paddle about to run into the ball from the side.  An untagged grid; the
\* paddle goes to x = 386 and waits there until the first ball, on its way
\* down, is at y = 500 (tick 100), and goes right from then on.  105 ticks
\* are made.  The ball is out of the paddle's reach for 8 ticks more; the
\* paddle that goes right in 8 of the next 9 ticks has the ball's bottom 10
\* pixels below its top in the 9th.
PaddleFromTheSide ==
    [paddle |-> [x |-> 431, width |-> 100],
     ball |-> [x |-> 645, y |-> 525, dx |-> -5000000, dy |-> 5000000,
              trail |-> <<<<755, 435>>, <<750, 440>>, <<745, 445>>, <<740, 450>>, <<735, 455>>, <<730, 460>>, <<725, 465>>, <<720, 470>>, <<715, 475>>, <<710, 480>>, <<705, 485>>, <<700, 490>>, <<695, 495>>, <<690, 500>>, <<685, 505>>, <<680, 510>>, <<675, 515>>, <<670, 520>>, <<665, 525>>, <<660, 530>>>>],
     default_ball_dx |-> 5000000,
     default_ball_dy |-> 5000000,
     row_range |-> 5,
     bricks |-> Remaining(create_bricks(5, 10, NoTags),
                          {47}),
     particles |-> <<>>,
     fragments |-> <<>>,
     level |-> 1,
     score |-> 100,
     current_high_score |-> 0,
     lives |-> 3,
     stage_bricks |-> 49,
     active_power_up |-> None,
     power_ups |-> <<>>,
     power_up_start_time |-> 0,
     paddle_width_default |-> 100,
     game_state |-> 1,
     logged_in |-> TRUE,
     current_user |-> <<"p">>,
     focused |-> TRUE,
     username_input |-> [text |-> <<"p">>, active |-> FALSE],
     password_input |-> [text |-> <<"p">>, active |-> FALSE],
     users |-> Account(<<"p">>, <<"p">>, 0),
     returned |-> Returns("int", 0),
     screen |-> 1,
     now |-> 1785,
     error |-> None]

\* A slow ball about to reach the right wall as a second slow_ball is
\* caught.  Bricks (4, 6) and (4, 7) are tagged slow_ball; the paddle stays at
\* 350 for 242 ticks, while the first two balls are lost (ticks 116 and 240),
\* then goes right to 512 and waits there.  It runs into the first power-up
\* from the side at tick 250, which slows the third ball at x = 440, and is
\* under the second when that one reaches it, at tick 364.  361 ticks are
\* made.
SlowBallAtTheWall ==
    [paddle |-> [x |-> 512, width |-> 100],
     ball |-> [x |-> 773, y |-> 327, dx |-> 3500000, dy |-> 3500000,
              trail |-> <<<<723, 277>>, <<726, 280>>, <<729, 283>>, <<732, 286>>, <<735, 289>>, <<738, 292>>, <<741, 295>>, <<744, 298>>, <<747, 301>>, <<750, 304>>, <<753, 307>>, <<756, 310>>, <<759, 313>>, <<762, 316>>, <<765, 319>>, <<768, 322>>, <<771, 325>>, <<774, 328>>, <<777, 331>>, <<780, 334>>>>],
     default_ball_dx |-> 5000000,
     default_ball_dy |-> 5000000,
     row_range |-> 5,
     bricks |-> Remaining(create_bricks(5, 10, (<<4, 6>> :> "slow_ball") @@ (<<4, 7>> :> "slow_ball")),
                          {38, 47, 48}),
     particles |-> <<>>,
     fragments |-> <<>>,
     level |-> 1,
     score |-> 300,
     current_high_score |-> 0,
     lives |-> 1,
     stage_bricks |-> 47,
     active_power_up |-> "slow_ball",
     power_ups |-> <<PowerUp(595, 556, "slow_ball")>>,
     power_up_start_time |-> 4233,
     paddle_width_default |-> 100,
     game_state |-> 1,
     logged_in |-> TRUE,
     current_user |-> <<"p">>,
     focused |-> TRUE,
     username_input |-> [text |-> <<"p">>, active |-> FALSE],
     password_input |-> [text |-> <<"p">>, active |-> FALSE],
     users |-> Account(<<"p">>, <<"p">>, 0),
     returned |-> Returns("int", 0),
     screen |-> 1,
     now |-> 6137,
     error |-> None]

\* The last two bricks of level 1 about to be broken, the first of them
\* dropping a power-up.  Brick (1, 0) is tagged extra_life; the paddle follows
\* the ball but for the 9th time the ball comes down, when it keeps away and
\* the first ball is lost (tick 1476).  5749 ticks are made: the ball breaks
\* brick (1, 0) in the second tick from here and brick (0, 0), the last, in
\* the sixth, the power-up 10 pixels on its way.
LastBrickDropping ==
    [paddle |-> [x |-> 53, width |-> 100],
     ball |-> [x |-> 85, y |-> 35, dx |-> -5000000, dy |-> 5000000,
              trail |-> <<<<195, 55>>, <<190, 50>>, <<185, 45>>, <<180, 40>>, <<175, 35>>, <<170, 30>>, <<165, 25>>, <<160, 30>>, <<155, 35>>, <<150, 30>>, <<145, 25>>, <<140, 20>>, <<135, 15>>, <<130, 10>>, <<125, 15>>, <<120, 20>>, <<115, 25>>, <<110, 30>>, <<105, 35>>, <<100, 40>>>>],
     default_ball_dx |-> 5000000,
     default_ball_dy |-> 5000000,
     row_range |-> 5,
     bricks |-> <<Brick(10, 10, None), Brick(10, 40, "extra_life")>>,
     particles |-> <<[size |-> 10, lifetime |-> 35], [size |-> 10, lifetime |-> 35], [size |-> 10, lifetime |-> 35], [size |-> 10, lifetime |-> 35], [size |-> 10, lifetime |-> 35], [size |-> 10, lifetime |-> 35], [size |-> 10, lifetime |-> 35], [size |-> 10, lifetime |-> 35], [size |-> 10, lifetime |-> 35], [size |-> 10, lifetime |-> 35], [size |-> 12, lifetime |-> 37], [size |-> 12, lifetime |-> 37], [size |-> 12, lifetime |-> 37], [size |-> 12, lifetime |-> 37], [size |-> 12, lifetime |-> 37], [size |-> 12, lifetime |-> 37], [size |-> 12, lifetime |-> 37], [size |-> 12, lifetime |-> 37], [size |-> 12, lifetime |-> 37], [size |-> 12, lifetime |-> 37]>>,
     fragments |-> <<[width |-> 1550, height |-> 350, fade_speed |-> 10], [width |-> 1550, height |-> 350, fade_speed |-> 10], [width |-> 1550, height |-> 350, fade_speed |-> 10], [width |-> 1550, height |-> 350, fade_speed |-> 10], [width |-> 1570, height |-> 370, fade_speed |-> 10], [width |-> 1570, height |-> 370, fade_speed |-> 10], [width |-> 1570, height |-> 370, fade_speed |-> 10], [width |-> 1570, height |-> 370, fade_speed |-> 10]>>,
     level |-> 1,
     score |-> 4800,
     current_high_score |-> 0,
     lives |-> 2,
     stage_bricks |-> 2,
     active_power_up |-> None,
     power_ups |-> <<>>,
     power_up_start_time |-> 0,
     paddle_width_default |-> 100,
     game_state |-> 1,
     logged_in |-> TRUE,
     current_user |-> <<"p">>,
     focused |-> TRUE,
     username_input |-> [text |-> <<"p">>, active |-> FALSE],
     password_input |-> [text |-> <<"p">>, active |-> FALSE],
     users |-> Account(<<"p">>, <<"p">>, 0),
     returned |-> Returns("int", 0),
     screen |-> 1,
     now |-> 97733,
     error |-> None]

\* Particles about to reach the end of their lifetime: the game of
\* FadingParticles 24 ticks later, 159 ticks made.  Of the burst of tick 113
\* the two particles of size 10 are left, 47 ticks old.
OldParticles ==
    [paddle |-> [x |-> 341, width |-> 100],
     ball |-> [x |-> 375, y |-> 335, dx |-> -5000000, dy |-> -5000000,
              trail |-> <<<<485, 445>>, <<480, 440>>, <<475, 435>>, <<470, 430>>, <<465, 425>>, <<460, 420>>, <<455, 415>>, <<450, 410>>, <<445, 405>>, <<440, 400>>, <<435, 395>>, <<430, 390>>, <<425, 385>>, <<420, 380>>, <<415, 375>>, <<410, 370>>, <<405, 365>>, <<400, 360>>, <<395, 355>>, <<390, 350>>>>],
     default_ball_dx |-> 5000000,
     default_ball_dy |-> 5000000,
     row_range |-> 5,
     bricks |-> Remaining(create_bricks(5, 10, NoTags),
                          {47}),
     particles |-> <<[size |-> 3, lifetime |-> 3], [size |-> 3, lifetime |-> 3]>>,
     fragments |-> <<>>,
     level |-> 1,
     score |-> 100,
     current_high_score |-> 0,
     lives |-> 3,
     stage_bricks |-> 49,
     active_power_up |-> None,
     power_ups |-> <<>>,
     power_up_start_time |-> 0,
     paddle_width_default |-> 100,
     game_state |-> 1,
     logged_in |-> TRUE,
     current_user |-> <<"p">>,
     focused |-> TRUE,
     username_input |-> [text |-> <<"p">>, active |-> FALSE],
     password_input |-> [text |-> <<"p">>, active |-> FALSE],
     users |-> Account(<<"p">>, <<"p">>, 0),
     returned |-> Returns("int", 0),
     screen |-> 1,
     now |-> 2703,
     error |-> None]

Games ==
    {LastBall(0), LastBall(5000), SecondBall, BrickByTheWall, WiderPaddle,
     ThreeBricks, TopLeftCorner, LastBrick, LastBallLevel2, LastBrickAgain,
     SlowBallLevel2, FadingParticles, TwoBricks, PowerUpPastPaddle,
     BrickAtLevel2}

\* The state BreakoutGame() constructs, or a game played from there.
Init ==
    /\ \E s \in Constructed \cup Games : Starts(s)
    /\ frame = 0

\* --------------------------------------------------------------- actions
\* pygame.key.get_pressed(): which arrow keys are held down; read by
\* update_game alone.  s is the state handle_events left.
ArrowKeys(s) ==
    IF s.focused /\ s.game_state = GAME_RUNNING
    THEN SUBSET {"K_LEFT", "K_RIGHT"}
    ELSE {{}}

\* The ball meets the paddle, a brick, every brick left.
MeetsPaddle(s) == CollideRect(BallRect(s.ball), PaddleRect(s.paddle))
MeetsBrick(s) ==
    \E i \in 1..Len(s.bricks) : CollideRect(BallRect(s.ball), BrickRect(s.bricks[i]))
MeetsAllBricks(s) ==
    /\ s.bricks # <<>>
    /\ \A i \in 1..Len(s.bricks) : CollideRect(BallRect(s.ball), BrickRect(s.bricks[i]))

\* The draws update_game makes once the ball and the paddle have moved (s):
\* sizes when a burst is spawned, fragments when a brick breaks, tags when
\* the last brick breaks and a new grid is made.
DrawsAfterMove(s) ==
    {Draw(tags, sizes, fragment) :
        tags \in IF MeetsAllBricks(s) THEN TagDraws ELSE {NoDraw.tags},
        sizes \in IF MeetsBrick(s) \/ MeetsPaddle(s) THEN SizeDraws ELSE {NoDraw.sizes},
        fragment \in IF MeetsBrick(s) THEN FragmentDraws ELSE {NoDraw.fragment}}

\* The draws of the iteration; s is the state handle_events left.
Draws(s, keys) ==
    IF s.focused /\ s.game_state = GAME_RUNNING
    THEN DrawsAfterMove(move_ball_and_paddle(s, keys))
    ELSE {NoDraw}

\* Events arrive in any number between two updates; handle_events takes them
\* one after the other.  The text boxes are given the letter p and blanks
\* only, at most MaxText characters each.
TextKeys == {"K_p", "K_SPACE"}
Typable(s, event) ==
    \/ event.type # "KEYDOWN"
    \/ Unicode(event.key) = ""
    \/ s.game_state # MAIN_MENU
    \/ ~(s.username_input.active \/ s.password_input.active)
    \/ /\ event.key \in TextKeys
       /\ s.username_input.active => Len(s.username_input.text) < MaxText
       /\ s.password_input.active => Len(s.password_input.text) < MaxText

\* The body of the loop of handle_events for one event of the queue.  (An
\* event that changes nothing leaves no step to take.)
Handle(event) ==
    /\ error = None
    /\ Typable(self, event)
    /\ \E s \in {handle_events(self, event)} :
          /\ s # self
          /\ Becomes(s)
    /\ frame' = frame

\* The rest of an iteration of BreakoutGame.run once the events are handled:
\* update_game when focused and running, draw_game, then the clock's tick.
\* An iteration that does not update draws the screen again and changes the
\* clock, and the clock is read only against power_up_start_time while an
\* effect is active: such an iteration is a step only then.
Frame ==
    /\ frame < MaxFrames
    /\ error = None
    /\ (focused /\ game_state = GAME_RUNNING) \/ active_power_up # None
    /\ \E s \in {self} :
          \E keys \in ArrowKeys(s) :
              \E draw \in Draws(s, keys) :
                  \E s1 \in {clock_tick(draw_game(update_if_focused(s, keys, draw)))} :
                      Becomes(s1)
    /\ frame' = frame + 1

Events ==
    {WindowFocusLost, WindowFocusGained}
    \cup {KeyDown(key) : key \in Keys}
    \cup {MouseButtonDown(target) : target \in ClickTargets}

Next ==
    \/ Frame
    \/ \E event \in Events : Handle(event)

Spec == Init /\ [][Next]_vars

\* The game about to be lost at level 2, and what follows it.
InitLostAtLevel2 == Starts(LastBallLevel2) /\ frame = 0
SpecLostAtLevel2 == InitLostAtLevel2 /\ [][Next]_vars

\* Level 2 with its first ball about to be lost, and what follows it.
InitFirstBallLevel2 == Starts(FirstBallLevel2) /\ frame = 0
SpecFirstBallLevel2 == InitFirstBallLevel2 /\ [][Next]_vars

\* Two slow balls about to be caught in one tick, and what follows it.
InitTwoSlowBalls == Starts(TwoSlowBalls) /\ frame = 0
SpecTwoSlowBalls == InitTwoSlowBalls /\ [][Next]_vars

\* ------------------------------------------------------------- user_auth
\* An extra life about to be caught, about to be replaced by each of the
\* other power-ups, and about to expire, and what follows them.
ExtraLifeGames == {ExtraLifeFalling, ExtraLifeReplaced, ExtraLifeSlowed, ExtraLifeEnding}
InitExtraLife == (\E s \in ExtraLifeGames : Starts(s)) /\ frame = 0
SpecExtraLife == InitExtraLife /\ [][Next]_vars

\* The paddle about to run into the ball from the side, and what follows it.
InitPaddleFromTheSide == Starts(PaddleFromTheSide) /\ frame = 0
SpecPaddleFromTheSide == InitPaddleFromTheSide /\ [][Next]_vars

\* The slow ball about to reach the wall as a second slow_ball is caught,
\* and what follows it.
InitSlowBallAtTheWall == Starts(SlowBallAtTheWall) /\ frame = 0
SpecSlowBallAtTheWall == InitSlowBallAtTheWall /\ [][Next]_vars

\* Games with a power-up on its way down (about to leave the screen, about
\* to be caught, and dropped as the level is cleared), and what follows
\* them.  The loop of run iterates for as long as the process lives: an
\* iteration that can be made is made.  Iteration is Frame as far as its
\* guard and its count go: the steps of Next that raise frame are those of
\* Frame, which can be taken whenever its guard holds.
FallingGames == {PowerUpPastPaddle, WiderPaddle, LastBrickDropping}
InitFalling == (\E s \in FallingGames : Starts(s)) /\ frame = 0
Iteration ==
    /\ frame < MaxFrames
    /\ error = None
    /\ (focused /\ game_state = GAME_RUNNING) \/ active_power_up # None
    /\ frame' = frame + 1
SpecFalling == InitFalling /\ [][Next]_vars /\ WF_frame(Iteration)

\* Games with particles in the air (half way through their lifetime, at the
\* end of it, and about to be joined by the bursts of three bricks), and what
\* follows them.
ParticleGames == {FadingParticles, OldParticles, ThreeBricks}
InitParticles == (\E s \in ParticleGames : Starts(s)) /\ frame = 0
SpecParticles == InitParticles /\ [][Next]_vars

\* ------------------------------------------------------------- user_auth
\* user_auth on its own: its four functions called in any order, with any
\* of the usernames, passwords and scores below, on the users dictionary
\* load_users_from_file read.  The game stands at its main menu.
Usernames == {<<"p">>, <<"r">>}
Passwords == {<<"p">>, <<"r">>}
Scores == {100 * k : k \in 0..MaxScore}

\* What the calls of user_auth leave alone.
game ==
    <<paddle, ball, default_ball_dx, default_ball_dy, row_range, bricks,
      particles, fragments, level, score, current_high_score, lives,
      stage_bricks, active_power_up, power_ups, power_up_start_time,
      paddle_width_default, game_state, logged_in, current_user, focused,
      username_input, password_input, screen, now, error, frame>>

\* register_user(username, password): returns nothing.
RegisterUser(username, password) ==
    /\ users' = register_user(users, username, password)
    /\ returned' = Returns("None", 0)
    /\ UNCHANGED game

\* login_user(username, password): returns the verdict.
LoginUser(username, password) ==
    /\ users' = users
    /\ returned' = ReturnsBool(login_user(users, username, password))
    /\ UNCHANGED game

\* update_high_score(username, score): returns nothing.
UpdateHighScore(username, score_) ==
    /\ users' = update_high_score(users, username, score_)
    /\ returned' = Returns("None", 0)
    /\ UNCHANGED game

\* get_high_score(username): returns the high score or None.
GetHighScore(username) ==
    /\ users' = users
    /\ returned' = ReturnsHighScore(get_high_score(users, username))
    /\ UNCHANGED game

InitUserAuth ==
    /\ \E file \in UsersFiles : Starts(BreakoutGame(file, NoTags, 0))
    /\ frame = 0

NextUserAuth ==
    \/ \E username \in Usernames, password \in Passwords :
           RegisterUser(username, password)
    \/ \E username \in Usernames, password \in Passwords :
           LoginUser(username, password)
    \/ \E username \in Usernames, score_ \in Scores :
           UpdateHighScore(username, score_)
    \/ \E username \in Usernames : GetHighScore(username)

SpecUserAuth == InitUserAuth /\ [][NextUserAuth]_vars

\* ---------------------------------------------------------------- claims
\* An iteration that ran update_game.
RunningTick == frame' = frame + 1 /\ focused /\ game_state = GAME_RUNNING
\* The ball's bottom edge once Ball.move has moved it.
BottomAfterMove == ball.y + Trunc(ball.dy) + 20
\* The step collected no power-up and let no effect expire.
NoPowerUpEvent ==
    /\ active_power_up' = active_power_up
    /\ power_up_start_time' = power_up_start_time
\* The high score user_auth stores for the current user.
StoredHighScore == users[current_user].high_score

C2_Scoring ==
    [][RunningTick =>
          score' = score + (IF level' = level THEN Len(bricks) - Len(bricks')
                            ELSE Len(bricks)) * level * 100]_vars

\* C2's case: the last brick of level 1 broken, scored 100, and level 2 begun.
C2_Witness ==
    /\ frame > 0
    /\ level = 2 /\ Len(bricks) = 60
    /\ score = 5000

\* C3: a tick of the running game that moves the ball's bottom to 600 or
\* beyond while lives = 1 ends in GAME_OVER with the stored high score of the
\* current user the larger of what was stored and the score; and whenever the
\* state is GAME_OVER the stored high score is at least the score.
C3_GameOver ==
    /\ [](game_state = GAME_OVER => StoredHighScore >= score)
    /\ [][RunningTick /\ lives = 1 /\ BottomAfterMove >= 600 =>
            /\ game_state' = GAME_OVER
            /\ users'[current_user].high_score = Max(StoredHighScore, score')]_vars

\* C3's case: the game is over and its score, 300, was written over a lower
\* stored high score.
C3_Witness ==
    /\ game_state = GAME_OVER
    /\ score = 300
    /\ StoredHighScore = 300
    /\ current_high_score = 300

\* C4 as stated: a tick of the running game that moves the ball's bottom to
\* 600 or beyond while lives > 1 ends with lives one less, the ball a fresh
\* Ball() (default position, velocity (5, -5)) and the state GAME_RUNNING.
C4_LifeLostAsStated ==
    [][RunningTick /\ lives > 1 /\ BottomAfterMove >= 600 =>
          /\ lives' = lives - 1
          /\ ball' = Ball
          /\ game_state' = GAME_RUNNING]_vars

\* C4, amended: such a tick ends in GAME_RUNNING, never in GAME_OVER, with the
\* ball at the default position; lives is one less and the ball's velocity
\* (5, -5) when the tick collects no power-up and lets no effect expire (the
\* power-ups are handled after the lost ball, in the same tick).
C4_LifeLost ==
    [][RunningTick /\ lives > 1 /\ BottomAfterMove >= 600 =>
          /\ game_state' = GAME_RUNNING
          /\ ball'.x = Ball.x /\ ball'.y = Ball.y /\ ball'.trail = <<>>
          /\ lives' >= lives - 1
          /\ NoPowerUpEvent => lives' = lives - 1 /\ ball' = Ball]_vars

\* C4's case: the second to last ball was lost, lives is 1, the fresh ball is
\* in play and the game runs on.
C4_Witness ==
    /\ frame > 0
    /\ game_state = GAME_RUNNING
    /\ lives = 1
    /\ ball = Ball

\* The ball meets no wall, no paddle and no brick in the step, and is not
\* replaced: nothing but a power-up changes its velocity.
PaddleMet == CollideRect(BallRect(ball'), PaddleRect(paddle'))
BallKept == ball'.trail # <<>>
Range(seq) == {seq[i] : i \in 1..Len(seq)}

\* C5 as stated: whenever a tick clears the last brick at level 1, also in a
\* game started after a restart, it ends with level 2, row_range 6, a grid of
\* 60 bricks, a fresh paddle, a fresh ball of speed 5.5 on both axes, no
\* particles, no fragments, and the state GAME_RUNNING.
C5_LevelTwoAsStated ==
    [][RunningTick /\ level = 1 /\ level' # level =>
          /\ level' = 2
          /\ row_range' = 6
          /\ Len(bricks') = 60
          /\ paddle' = Paddle
          /\ ball'.x = Ball.x /\ ball'.y = Ball.y
          /\ Abs(ball'.dx) = TimesTenths(5 * Unit, 11)
          /\ Abs(ball'.dy) = TimesTenths(5 * Unit, 11)
          /\ particles' = <<>>
          /\ fragments' = <<>>
          /\ game_state' = GAME_RUNNING]_vars

\* C6 as stated: in every state 5 <= row_range <= 10, row_range is
\* min(level + 4, 10), and there are at most row_range * 10 bricks.
C6_RowCountAsStated ==
    /\ 5 <= row_range /\ row_range <= 10
    /\ row_range = Min(level + 4, 10)
    /\ Len(bricks) <= row_range * 10

\* C7: a step that neither changes the level nor restarts the game (R in
\* GAME_OVER) leaves no more bricks than there were, and no brick that was
\* not there.
C7_BricksOnlyGo ==
    [][level' = level /\ ~(game_state = GAME_OVER /\ game_state' # GAME_OVER) =>
          /\ Len(bricks') <= Len(bricks)
          /\ Range(bricks') \subseteq Range(bricks)]_vars

\* C7's case: three bricks of the 31 left at level 1 have been broken.
C7_Witness ==
    /\ frame > 0
    /\ level = 1
    /\ Len(bricks) = 28
    /\ stage_bricks = 28

\* C8 as stated: the paddle's left edge is within [0, 800 - paddle width].
C8_PaddleOnScreenAsStated ==
    /\ 0 <= paddle.x
    /\ paddle.x <= 800 - paddle.width

\* C9: in a tick of the running game that keeps its ball and collects or
\* expires no power-up, dx is inverted if and only if, the ball moved, its
\* left edge is <= 0 or its right edge >= 800; and when the moved ball meets
\* neither the paddle nor a brick, dy is inverted if and only if its top edge
\* is <= 0: never for the bottom edge.
C9_Walls ==
    [][RunningTick /\ BallKept /\ NoPowerUpEvent =>
          /\ ball'.dx = IF ball'.x <= 0 \/ ball'.x + 20 >= 800
                        THEN -ball.dx ELSE ball.dx
          /\ ~PaddleMet /\ Len(bricks') = Len(bricks) =>
                ball'.dy = IF ball'.y <= 0 THEN -ball.dy ELSE ball.dy]_vars

\* C9's case: the ball touched the right wall (right edge exactly 800) and
\* was sent back.
C9_Witness ==
    /\ frame > 0
    /\ game_state = GAME_RUNNING
    /\ ball.x + 20 = 800
    /\ ball.dx < 0

\* C10 as stated: a tick in which the slow_ball effect expires, the ball
\* meeting nothing, leaves each component of the velocity with the sign it
\* had and the magnitude of the baseline (default_ball_dx, default_ball_dy).
C10_ExpiryKeepsDirectionAsStated ==
    [][/\ RunningTick /\ BallKept
       /\ active_power_up = "slow_ball" /\ active_power_up' = None
       /\ power_up_start_time' = power_up_start_time
       /\ 0 < ball'.x /\ ball'.x + 20 < 800 /\ 0 < ball'.y
       /\ ~PaddleMet /\ Len(bricks') = Len(bricks)
       =>
       /\ Abs(ball'.dx) = Abs(default_ball_dx)
       /\ Abs(ball'.dy) = Abs(default_ball_dy)
       /\ Sgn(ball'.dx) = Sgn(ball.dx)
       /\ Sgn(ball'.dy) = Sgn(ball.dy)]_vars

\* C11 as stated: in every state in which no power-up effect is active, the
\* paddle's width is the default width and the ball's speed on each axis has
\* the magnitude of the baseline (default_ball_dx, default_ball_dy).
C11_BaselineAsStated ==
    active_power_up = None =>
        /\ paddle.width = paddle_width_default
        /\ Abs(ball.dx) = Abs(default_ball_dx)
        /\ Abs(ball.dy) = Abs(default_ball_dy)

\* The falling power-ups once PowerUp.move has moved them, and the paddle
\* they fall on: where the tick left it, as wide as it was (a fresh one after
\* a level-up).
Falling == [i \in 1..Len(power_ups) |-> PowerUp_move(power_ups[i])]
PaddleBelow ==
    Rect(paddle'.x, 580, IF level' # level THEN Paddle.width ELSE paddle.width, 10)
Catches == \E i \in 1..Len(Falling) : CollideRect(PowerUpRect(Falling[i]), PaddleBelow)

\* C12: an active effect is cleared only by a tick of the running game at
\* which more than 5000 ms have passed since power_up_start_time, and no
\* effect is left active by such a tick; a tick in which the paddle catches a
\* power-up sets power_up_start_time to the tick's time, and nothing else
\* changes it.
C12_Expiry ==
    /\ [][active_power_up # None /\ active_power_up' = None =>
            /\ RunningTick
            /\ now - power_up_start_time' > POWER_UP_DURATION]_vars
    /\ [][RunningTick /\ active_power_up' # None =>
            now - power_up_start_time' <= POWER_UP_DURATION]_vars
    /\ [][RunningTick /\ Catches =>
            power_up_start_time' = now /\ active_power_up' # None]_vars
    /\ [][power_up_start_time' # power_up_start_time => RunningTick /\ Catches]_vars

\* C12's case: the slow ball caught at 180132 ms was still slow at 4998 ms
\* and was restored by the tick at 5015 ms.
C12_Witness ==
    /\ active_power_up = None
    /\ power_up_start_time = 180132
    /\ now = 180132 + 5015 + FrameMs

\* The ball's rect once Ball.move has moved it, whether it meets the paddle
\* there, and the bricks it meets there.
BallMoved == Rect(ball.x + Trunc(ball.dx), ball.y + Trunc(ball.dy), 20, 20)
Strikes == CollideRect(BallMoved, PaddleBelow)
Broken == SelectSeq(bricks, LAMBDA brick : CollideRect(BallMoved, BrickRect(brick)))

\* C13: no state holds a particle with lifetime <= 0 or size <= 0; and a tick
\* of the running game that stays in its level leaves, in their order, the
\* particles it found, each updated once (size less 0.2, lifetime less 1),
\* without those the update left dead, followed by the 10 particles of each
\* paddle hit and each broken brick of the tick, each updated once too
\* (lifetime 49, size 4.8 to 9.8).
C13_ParticlesPurged ==
    /\ [](\A i \in 1..Len(particles) :
            particles[i].lifetime > 0 /\ particles[i].size > 0)
    /\ [][RunningTick /\ level' = level =>
            LET updated == [i \in 1..Len(particles) |-> Particle_update(particles[i])]
                survivors ==
                    SelectSeq(updated, LAMBDA pt : pt.lifetime > 0 /\ pt.size > 0)
                bursts == (IF Strikes THEN 1 ELSE 0) + Len(Broken)
            IN  /\ Len(particles') = Len(survivors) + 10 * bursts
                /\ SubSeq(particles', 1, Len(survivors)) = survivors
                /\ \A i \in (Len(survivors) + 1)..Len(particles') :
                      /\ particles'[i].lifetime = 50 - 1
                      /\ particles'[i].size \in (5 * 5 - 1)..(5 * 10 - 1)]_vars

\* C13's case: of the ten particles of a paddle hit, the smallest has
\* reached size 0 and is gone, and the nine left are a tick older.
C13_Witness ==
    /\ Len(particles) = 9
    /\ particles[1] = [size |-> 5, lifetime |-> 25]
    /\ particles[9] = [size |-> 10, lifetime |-> 25]

\* C14: the trail never holds more than 20 particles; and a tick of the
\* running game that keeps its ball leaves the trail it found with a particle
\* made at the centre the ball had appended, and without its first (oldest)
\* particle if that makes 21.
C14_Trail ==
    /\ [](Len(ball.trail) <= 20)
    /\ [][RunningTick /\ BallKept =>
            LET appended == Append(ball.trail, <<ball.x + 10, ball.y + 10>>)
            IN  ball'.trail = IF Len(appended) <= 20 THEN appended
                              ELSE SubSeq(appended, 2, 21)]_vars

\* C14's case: a trail of 20 was given a 21st particle, made where the third
\* ball of LastBall was, and lost its oldest, made at (660, 470).
C14_Witness ==
    /\ Len(ball.trail) = 20
    /\ ball.trail[20] = <<LastBall(0).ball.x + 10, LastBall(0).ball.y + 10>>
    /\ ball.trail[1] = LastBall(0).ball.trail[2]

\* The draws create_bricks is tried with for a grid of rows x cols: no brick
\* tagged, one brick tagged, every brick tagged, with each of the types.
GridDraws(rows, cols) ==
    LET places == (0..(rows - 1)) \X (0..(cols - 1))
        types == Range(special_brick_types)
    IN  {NoTags}
        \cup {place :> type : place \in places, type \in types}
        \cup {[place \in places |-> type] : type \in types}

\* grid is rows x cols bricks, one at each (col * 80 + 10, row * 30 + 10),
\* inside the screen when cols = 10, each tagged with a type or not at all.
GridAsClaimed(grid, rows, cols) ==
    LET places == {<<BrickRect(grid[i]).x, BrickRect(grid[i]).y>> : i \in 1..Len(grid)}
    IN  /\ Len(grid) = rows * cols
        /\ places = {<<col * 80 + 10, row * 30 + 10>> :
                        row \in 0..(rows - 1), col \in 0..(cols - 1)}
        /\ Cardinality(places) = rows * cols
        /\ cols = 10 =>
              \A i \in 1..Len(grid) :
                  0 <= BrickRect(grid[i]).x
                  /\ BrickRect(grid[i]).x + BrickRect(grid[i]).w <= 800
        /\ \A i \in 1..Len(grid) :
              BrickType(grid[i]) \in {None} \cup Range(special_brick_types)

\* create_bricks over the grids up to MaxRows x MaxCols and their draws.
EveryGridAsClaimed ==
    \A rows \in 0..MaxRows, cols \in 0..MaxCols :
        \A tags \in GridDraws(rows, cols) :
            GridAsClaimed(create_bricks(rows, cols, tags), rows, cols)

\* C15: for rows up to MaxRows, cols up to MaxCols and each of the draws,
\* create_bricks returns rows x cols bricks, one at each position
\* (col * 80 + 10, row * 30 + 10), none repeated, all inside the 800 wide
\* screen for cols = 10, each tagged with one of the three types or not at
\* all; and so are the grids the game makes: the one of its construction,
\* 5 x 10 (the grid there is until the login), and the one of each level-up,
\* row_range x 10.
C15_CreateBricks ==
    /\ []EveryGridAsClaimed
    /\ [](game_state = MAIN_MENU => GridAsClaimed(bricks, 5, 10))
    /\ [][level' # level /\ RunningTick =>
            GridAsClaimed(bricks', row_range', 10)]_vars

\* C15's case: the grid of level 2, 6 x 10, made with brick (4, 6) tagged
\* slow_ball.
C15_Witness ==
    /\ level = 2
    /\ Len(bricks) = 6 * 10
    /\ bricks[47] = Brick(490, 130, "slow_ball")
    /\ bricks[60] = Brick(730, 160, None)

\* C16: a tick of the running game that stays in its level leaves the bricks
\* it found without those whose rect overlaps the moved ball's (a tick that
\* changes level found no other brick); and if the tick keeps its ball and
\* collects or expires no power-up, dy is negated once for each brick gone,
\* once if the ball meets the paddle and once if it meets the top wall, so
\* that k bricks alone leave dy multiplied by (-1)^k, and dx is negated if
\* the ball meets a side wall and not otherwise.
C16_BrickHits ==
    [][RunningTick =>
          LET broken == Len(Broken)
              turns == broken + (IF Strikes THEN 1 ELSE 0)
                       + (IF BallMoved.y <= 0 THEN 1 ELSE 0)
              aside == BallMoved.x <= 0 \/ BallMoved.x + 20 >= 800
          IN  /\ level' = level =>
                    bricks' = SelectSeq(bricks, LAMBDA brick :
                                  ~CollideRect(BallMoved, BrickRect(brick)))
              /\ level' # level => broken = Len(bricks)
              /\ BallKept /\ NoPowerUpEvent =>
                    /\ ball'.dy = IF turns % 2 = 0 THEN ball.dy ELSE -ball.dy
                    /\ ball'.dx = IF aside THEN -ball.dx ELSE ball.dx]_vars

\* C16's case: the ball of TwoBricks has broken two bricks in one tick, the
\* 11th and 12th of the game, and goes on upwards.
C16_Witness ==
    /\ Len(bricks) = TwoBricks.stage_bricks - 2
    /\ score = TwoBricks.score + 2 * 100
    /\ ball.x = 315 /\ ball.y = 115
    /\ ball.dy = TwoBricks.ball.dy

\* The power-ups of the bricks the moved ball meets: one for each that has a
\* type, of that type, at (brick.x + 25, brick.y), none for the others.
Dropped ==
    LET tagged == SelectSeq(Broken, LAMBDA brick : BrickType(brick) # None)
    IN  [i \in 1..Len(tagged) |->
            PowerUp(BrickRect(tagged[i]).x + 25, BrickRect(tagged[i]).y,
                    BrickType(tagged[i]))]
\* The power-ups there were and those dropped, once PowerUp.move has moved
\* them (those dropped fall 2 pixels in the tick that drops them).
Fallen ==
    [i \in 1..(Len(power_ups) + Len(Dropped)) |->
        PowerUp_move(IF i <= Len(power_ups) THEN power_ups[i]
                     ELSE Dropped[i - Len(power_ups)])]

\* C17: only a tick of the running game changes the falling power-ups, and
\* it adds to them exactly one for each brick it breaks that has a type, of
\* that type, at (brick.x + 25, brick.y), and none for a brick without a
\* type: the power-ups it leaves are among those there were and those
\* dropped, each 2 pixels lower, and are all of them, in order, when the
\* paddle catches none and none reaches the bottom.
C17_PowerUpDrops ==
    /\ [][power_ups' # power_ups => RunningTick]_vars
    /\ [][RunningTick =>
            \A fallen \in {Fallen} :
                /\ Len(power_ups') <= Len(fallen)
                /\ Range(power_ups') \subseteq Range(fallen)
                /\ (\A i \in 1..Len(fallen) :
                        /\ ~CollideRect(PowerUpRect(fallen[i]), PaddleBelow)
                        /\ fallen[i].y < 600)
                    => power_ups' = fallen]_vars

\* C17's case: brick (4, 9), at (730, 130) and tagged increase_paddle_size,
\* has been broken and its power-up dropped at (755, 130) and moved to 132.
C17_Witness ==
    /\ power_ups = <<PowerUp(730 + 25, 130 + 2, "increase_paddle_size")>>
    /\ Len(bricks) = BrickByTheWall.stage_bricks - 1

\* The paddle as wide as an increase_paddle_size caught in the tick makes it.
WidestBelow ==
    Rect(PaddleBelow.x, PaddleBelow.y,
         Max(PaddleBelow.w, TimesTenths(paddle_width_default, 15)), PaddleBelow.h)

\* What C18 says of a tick that moved the power-ups to `fallen`; onPaddle and
\* atBottom are the places in fallen of the power-ups on the paddle and of
\* those at the bottom of the screen.
FallsAsClaimed(fallen) ==
    LET onPaddle ==
            {i \in 1..Len(fallen) : CollideRect(PowerUpRect(fallen[i]), PaddleBelow)}
        atBottom == {i \in 1..Len(fallen) : fallen[i].y >= 600}
    IN  /\ onPaddle \cap atBottom = {}
        /\ \A p \in Range(power_ups') :
              \E i \in 1..Len(fallen) : p = fallen[i] /\ i \notin onPaddle \cup atBottom
        /\ \A i \in 1..Len(fallen) :
              i \notin atBottom /\ ~CollideRect(PowerUpRect(fallen[i]), WidestBelow)
              => fallen[i] \in Range(power_ups')
        /\ onPaddle # {} =>
              /\ power_up_start_time' = now
              /\ \E i \in onPaddle : active_power_up' = fallen[i].power_up_type
        /\ Cardinality(onPaddle) = 1 /\ level' = level =>
              /\ active_power_up' = "increase_paddle_size" =>
                    paddle'.width = TimesTenths(paddle_width_default, 15)
              /\ active_power_up' = "extra_life" =>
                    lives' = lives + 1
                             - (IF BottomAfterMove >= 600 /\ lives > 1 THEN 1 ELSE 0)
              /\ active_power_up' = "slow_ball" /\ BallKept =>
                    /\ Abs(ball'.dx) = TimesTenths(Abs(ball.dx), 7)
                    /\ Abs(ball'.dy) = TimesTenths(Abs(ball.dy), 7)
        /\ onPaddle = {} =>
              /\ power_ups' = SelectSeq(fallen, LAMBDA p : p.y < 600)
              /\ power_up_start_time' = power_up_start_time
              /\ active_power_up' \in {active_power_up, None}
              /\ lives' <= lives
              /\ BallKept /\ level' = level /\ active_power_up' = active_power_up =>
                    /\ lives' = lives
                    /\ paddle'.width = paddle.width
                    /\ Abs(ball'.dx) = Abs(ball.dx)
                    /\ Abs(ball'.dy) = Abs(ball.dy)

\* C18: in a tick of the running game every falling power-up moves 2 pixels
\* down; it leaves the list if it is on the paddle or its top is at 600 or
\* beyond, never both, and stays if it is clear of the bottom and of the
\* paddle (as wide as a power-up caught before it in the tick may make it);
\* the removal never fails (no ValueError for a power-up removed twice).
\* When one is on the paddle, the effect active after the tick is the type
\* of one that is, timed from the tick, and if it is the only one its effect
\* is applied: the paddle 1.5 times its default width, lives one more (less
\* the one the tick may lose), the kept ball's speed 0.7 times what it was.
\* When none is on the paddle, those at the bottom go without effect: no
\* effect is activated, and lives, the paddle's width and the ball's speed
\* are as the rest of the tick leaves them, that is unchanged if the tick
\* loses no ball, changes no level and lets no effect expire.
C18_PowerUpFalls ==
    /\ [](error # "ValueError")
    /\ [][RunningTick => \A fallen \in {Fallen} : FallsAsClaimed(fallen)]_vars

\* C18's case: the power-up of PowerUpPastPaddle, beside the paddle at 592,
\* has reached 600 and is gone; the effect active is the one there was,
\* timed as it was, and lives is 1 as it was.
C18_Witness ==
    /\ power_ups = <<>>
    /\ now >= PowerUpPastPaddle.now + 4 * FrameMs
    /\ active_power_up = PowerUpPastPaddle.active_power_up
    /\ power_up_start_time = PowerUpPastPaddle.power_up_start_time
    /\ lives = PowerUpPastPaddle.lives
    /\ game_state = GAME_RUNNING

\* The gameplay state.
Gameplay ==
    <<ball, paddle, bricks, power_ups, particles, fragments, score, level, lives,
      active_power_up>>

\* C19: the rest of a loop iteration after its events, made while the window
\* is unfocused or the state PAUSED, changes nothing of the gameplay state,
\* and nothing does while the state is PAUSED; every iteration draws the
\* screen of the state it ends in; and an iteration made with the focus in
\* GAME_RUNNING, the first after the focus is regained as any other, updates
\* the game: its ball is moved or replaced.
C19_Suspended ==
    /\ [][(frame' = frame + 1 /\ ~focused) \/ game_state = PAUSED =>
            UNCHANGED Gameplay]_vars
    /\ [][frame' = frame + 1 => screen' = game_state']_vars
    /\ [][RunningTick => ball' # ball]_vars

\* C19's case: of the two iterations made from SecondBall one was made
\* without the focus or paused, and one with the focus and running: the ball
\* and the falling power-up have moved once.
C19_Witness ==
    /\ frame = 2
    /\ now = SecondBall.now + 2 * FrameMs
    /\ focused /\ game_state = GAME_RUNNING
    /\ ball.x = SecondBall.ball.x + Trunc(SecondBall.ball.dx)
    /\ ball.y = SecondBall.ball.y + Trunc(SecondBall.ball.dy)
    /\ power_ups = <<PowerUp_move(SecondBall.power_ups[1])>>

C21_RoundTrip ==
    /\ [][\A username \in Usernames, password \in Passwords :
            RegisterUser(username, password) /\ username \notin DOMAIN users =>
                /\ login_user(users', username, password)
                /\ \A other \in Passwords \ {password} :
                      ~login_user(users', username, other)]_vars
    /\ [][\A username \in DOMAIN users, password \in Passwords :
            login_user(users', username, password)
                = login_user(users, username, password)]_vars
    /\ [][\A username \in Usernames, password \in Passwords :
            LoginUser(username, password) =>
                /\ users' = users
                /\ returned' = ReturnsBool(login_user(users', username, password))]_vars

\* C21's case: "r" was registered with the password "p", "p" with "r" and
\* given a high score, and a login has just been accepted.
C21_Witness ==
    /\ DOMAIN users = Usernames
    /\ users[<<"r">>].password = Hash(<<"p">>)
    /\ users[<<"p">>] = [password |-> Hash(<<"r">>), high_score |-> 300]
    /\ returned = ReturnsBool(TRUE)
\* C22: a call register_user(user, pass) for a username in the store leaves
\* the store as it was, the record's password digest and high score with
\* it: afterwards login_user accepts for that username exactly the password
\* it accepted before, and so not the password of the rejected attempt when
\* that is another one.
C22_DuplicateRejected ==
    [][\A username \in Usernames, password \in Passwords :
          RegisterUser(username, password) /\ username \in DOMAIN users =>
              /\ users' = users
              /\ users'[username].password = users[username].password
              /\ users'[username].high_score = users[username].high_score
              /\ \A tried \in Passwords :
                    login_user(users', username, tried)
                        <=> users[username].password = Hash(tried)
              /\ users[username].password # Hash(password) =>
                    ~login_user(users', username, password)]_vars

\* C22's case: "p", registered with the password "r" and holding the high
\* score 300, and "r", registered with "r", both in the store after a call
\* that returned nothing, as a rejected registration does.
C22_Witness ==
    /\ DOMAIN users = Usernames
    /\ users[<<"p">>] = [password |-> Hash(<<"r">>), high_score |-> 300]
    /\ users[<<"r">>] = [password |-> Hash(<<"r">>), high_score |-> 0]
    /\ returned = Returns("None", 0)
\* A text box holds nothing but blanks.
Empty(box) == Strip(box.text) = <<>>

\* C23 as stated: a click on Login or on Register at the main menu while the
\* username or the password is empty once stripped calls no function of
\* user_auth (nothing new is returned, the users dictionary is as it was),
\* leaves the state MAIN_MENU and no user logged in, and leaves both text
\* boxes cleared.
C23_EmptyRejectedAsStated ==
    [][\A button \in {"login_button", "register_button"} :
          /\ Handle(MouseButtonDown(button))
          /\ game_state = MAIN_MENU
          /\ Empty(username_input) \/ Empty(password_input)
          =>
          /\ users' = users /\ returned' = returned
          /\ game_state' = MAIN_MENU
          /\ ~logged_in'
          /\ current_user' = NoUser
          /\ username_input'.text = <<>>
          /\ password_input'.text = <<>>]_vars
\* C24: a click on Login at the main menu with a username and a password
\* that are not empty once stripped and that user_auth.login_user refuses
\* (no such username, or another password) leaves the state MAIN_MENU, no
\* user logged in before or after, current_user unset, the users dictionary
\* as it was, and both text boxes cleared.
C24_LoginRejected ==
    [][/\ Handle(MouseButtonDown("login_button"))
       /\ game_state = MAIN_MENU
       /\ ~Empty(username_input) /\ ~Empty(password_input)
       /\ ~login_user(users, Strip(username_input.text), Strip(password_input.text))
       =>
       /\ game_state' = MAIN_MENU
       /\ ~logged_in /\ ~logged_in'
       /\ current_user' = NoUser
       /\ users' = users
       /\ username_input'.text = <<>>
       /\ password_input'.text = <<>>]_vars

\* C24's case: user_auth.login_user has just refused the password of the
\* account "p" (which is "r") and the game is at the main menu, nobody logged
\* in, its text boxes empty.
C24_Witness ==
    /\ returned = ReturnsBool(FALSE)
    /\ users = Account(<<"p">>, <<"r">>, 0)
    /\ game_state = MAIN_MENU
    /\ ~logged_in /\ current_user = NoUser
    /\ username_input.text = <<>> /\ password_input.text = <<>>
\* C25: get_high_score for a username that is not in the store (none is ever
\* taken out of it, and only register_user puts one in) returns None and
\* leaves the store as it was; update_high_score for such a username leaves
\* the store as it was, without a record for it.
C25_UnknownUser ==
    /\ [][\A username \in Usernames :
            GetHighScore(username) /\ username \notin DOMAIN users =>
                /\ returned' = Returns("None", 0)
                /\ users' = users]_vars
    /\ [][\A username \in Usernames, score_ \in Scores :
            UpdateHighScore(username, score_) /\ username \notin DOMAIN users =>
                /\ users' = users
                /\ username \notin DOMAIN users']_vars
    /\ [][DOMAIN users' # DOMAIN users =>
            /\ DOMAIN users \subseteq DOMAIN users'
            /\ \E username \in Usernames, password \in Passwords :
                  RegisterUser(username, password)]_vars

\* C25's case: "r" was never registered, "p" holds the high score 300, and
\* the last call returned None.
C25_Witness ==
    /\ DOMAIN users = {<<"p">>}
    /\ users[<<"p">>].high_score = 300
    /\ returned = Returns("None", 0)
\* C26: no step takes a user out of the store or lowers a stored high score;
\* a user enters the store with the high score 0; a stored high score
\* changes only in the tick that ends a run of that user, logged in; and
\* that tick leaves it the larger of what was stored and the run's final
\* score: after each game over it is the largest final score of the user's
\* finished runs.
C26_HighScore ==
    /\ [][\A username \in DOMAIN users :
            /\ username \in DOMAIN users'
            /\ users'[username].high_score >= users[username].high_score
            /\ users'[username].high_score # users[username].high_score =>
                  /\ RunningTick /\ game_state' = GAME_OVER
                  /\ logged_in /\ username = current_user]_vars
    /\ [][\A username \in DOMAIN users' \ DOMAIN users :
            users'[username].high_score = 0]_vars
    /\ [][game_state # GAME_OVER /\ game_state' = GAME_OVER =>
            users'[current_user].high_score = Max(StoredHighScore, score')]_vars

\* C26's case: a run has ended with 300 points, fewer than the 5000 of a run
\* the user finished before, and 5000 is still what is stored.
C26_Witness ==
    /\ game_state = GAME_OVER
    /\ score = 300
    /\ StoredHighScore = 5000
    /\ returned = Returns("int", 5000)
\* Where the paddle may be and how wide when the tick reaches the power-ups:
\* where it was or 9 pixels to a side, as wide as it was, a fresh one, or
\* widened by a power-up caught in the tick.
PaddlesBelow ==
    {[x |-> x, width |-> width] :
        x \in {paddle.x - 9, paddle.x, paddle.x + 9, Paddle.x},
        width \in {paddle.width, Paddle.width, TimesTenths(paddle_width_default, 15)}}

\* C27: the paddle's bottom edge is never below 600, so that in no tick of
\* the running game is a power-up, moved, both on the paddle (wherever the
\* tick may have put it, however wide) and with its top at 600 or beyond;
\* the paddle the tick leaves is one of these, and no step ends with the
\* ValueError of a power-up removed twice from the list.
C27_NoDoubleRemoval ==
    /\ [](PaddleRect(paddle).y + PaddleRect(paddle).h <= 600)
    /\ [][RunningTick =>
            /\ paddle' \in PaddlesBelow
            /\ \A fallen \in {Fallen} :
                  \A i \in 1..Len(fallen), below \in PaddlesBelow :
                      ~(/\ CollideRect(PowerUpRect(fallen[i]), PaddleRect(below))
                        /\ fallen[i].y >= 600)]_vars
    /\ [][error' # "ValueError"]_vars

\* C27's case: the power-up of PowerUpPastPaddle has reached 600 with the
\* paddle under it (the paddle spans its 595..615) and is gone, not caught:
\* the effect active and its time are those there were.
C27_Witness ==
    /\ power_ups = <<>>
    /\ now = PowerUpPastPaddle.now + 4 * FrameMs
    /\ paddle.x < 595 + 20 /\ 595 < paddle.x + paddle.width
    /\ power_up_start_time = PowerUpPastPaddle.power_up_start_time
    /\ active_power_up = PowerUpPastPaddle.active_power_up
    /\ error = None
\* C28: in every state (after construction, after every tick of the running
\* game, level-up and restart included) stage_bricks is the number of bricks
\* there are.  So every brick is scored once, in the tick that destroys it:
\* the score is 0 at the menus, a tick of the running game adds 100
\* times the level at its start for each brick the moved ball meets, a
\* restart (R in GAME_OVER) sets the score to 0, and no other step changes
\* it.
C28_Baseline ==
    /\ [](stage_bricks = Len(bricks))
    /\ [](game_state \in {MAIN_MENU, POST_LOGIN_MENU} => score = 0)
    /\ [][RunningTick => score' = score + Len(Broken) * (100 * level)]_vars
    /\ [][~RunningTick /\ score' # score =>
            game_state = GAME_OVER /\ Handle(KeyDown("K_r")) /\ score' = 0]_vars

\* C28's case: the first brick of level 2 has been broken, for 200 points
\* over the 5000 of the 50 bricks of level 1, and 59 bricks are left and
\* counted.
C28_Witness ==
    /\ level = 2
    /\ score = 50 * 100 + 1 * 200
    /\ Len(bricks) = 59 /\ stage_bricks = 59
    /\ ball.dy = 0 - BrickAtLevel2.ball.dy
    /\ now = BrickAtLevel2.now + 3 * FrameMs
\* An extra_life among the power-ups the tick moves is on the paddle.
ExtraLifeCaught ==
    \E i \in 1..Len(Fallen) :
        /\ Fallen[i].power_up_type = "extra_life"
        /\ CollideRect(PowerUpRect(Fallen[i]), WidestBelow)

\* C29: lives >= 1 in every state.  A tick of the running game lowers lives
\* only by 1, only when it loses a ball (bottom at 600 or beyond) with
\* lives > 1, and raises it only when the paddle catches an extra_life; no
\* other step changes lives but the restart, R in GAME_OVER, which sets it
\* to 3.  The game becomes GAME_OVER only in a tick of the running game that
\* starts, and makes its tests, with lives = 1 and loses the ball.
C29_Lives ==
    /\ [](lives >= 1)
    /\ [][RunningTick /\ lives' < lives =>
            lives > 1 /\ BottomAfterMove >= 600 /\ lives' = lives - 1]_vars
    /\ [][RunningTick /\ lives' > lives => ExtraLifeCaught]_vars
    /\ [][RunningTick /\ ExtraLifeCaught => lives' >= lives]_vars
    /\ [][~RunningTick /\ lives' # lives =>
            game_state = GAME_OVER /\ Handle(KeyDown("K_r")) /\ lives' = 3]_vars
    /\ [][game_state # GAME_OVER /\ game_state' = GAME_OVER =>
            RunningTick /\ lives = 1 /\ BottomAfterMove >= 600]_vars

\* C29's case: the last ball of LastBallLevel2 was lost with lives = 1, and
\* the game is over with lives still 1.
C29_Witness ==
    /\ game_state = GAME_OVER
    /\ lives = 1
    /\ level = 2
    /\ score = LastBallLevel2.score
    /\ ball.y + 20 >= 600
\* C30: in every state whose game state is not MAIN_MENU a user is logged in
\* and current_user is in the store, where get_high_score finds an integer
\* for it; so the tick that ends a run never raises the TypeError of a score
\* compared with None, and ends with the integer get_high_score returned
\* last, the stored high score, as current_high_score.
C30_SessionUser ==
    /\ [](game_state # MAIN_MENU =>
            /\ logged_in
            /\ current_user \in DOMAIN users
            /\ get_high_score(users, current_user) # NoHighScore
            /\ get_high_score(users, current_user) \in Nat)
    /\ [](error # "TypeError")
    /\ [][game_state # GAME_OVER /\ game_state' = GAME_OVER =>
            /\ returned' = Returns("int", users'[current_user].high_score)
            /\ current_high_score' = users'[current_user].high_score]_vars

\* C30's case: the run of LastBallLevel2 has been finalized for the user
\* "p", whose record get_high_score found: it returned the 6000 just stored.
C30_Witness ==
    /\ game_state = GAME_OVER
    /\ logged_in /\ current_user = <<"p">>
    /\ returned = Returns("int", LastBallLevel2.score)
    /\ current_high_score = LastBallLevel2.score
    /\ StoredHighScore = LastBallLevel2.score

\* C31 as stated: the step that restarts a finished game (R in GAME_OVER)
\* leaves the gameplay state of the first game of the process: 5 rows, a
\* baseline ball speed of 5 on both axes, no active power-up and no timer
\* of one, no falling power-up, and the full grid of 5 rows of 10 bricks.
C31_RestartAsStated ==
    [][game_state = GAME_OVER /\ game_state' # GAME_OVER =>
          /\ row_range' = 5
          /\ Abs(default_ball_dx') = 5 * Unit
          /\ Abs(default_ball_dy') = 5 * Unit
          /\ active_power_up' = None
          /\ power_up_start_time' = 0
          /\ power_ups' = <<>>
          /\ Len(bricks') = 50
          /\ level' = 1 /\ score' = 0 /\ lives' = 3
          /\ paddle' = Paddle /\ ball' = Ball]_vars

\* The game after each of the five branches of handle_events for one event,
\* in the order the handler tests them, the first entry being the game the
\* first branch sees.
Branches(s, event) ==
    LET s0 == focus_event(s, event)
        s1 == main_menu_event(s0, event)
        s2 == post_login_menu_event(s1, event)
        s3 == game_running_event(s2, event)
        s4 == paused_event(s3, event)
    IN  <<s0, s1, s2, s3, s4, game_over_event(s4, event)>>

\* The branches that acted on the event.
Consumed(s, event) ==
    {i \in 1..5 : Branches(s, event)[i + 1] # Branches(s, event)[i]}

\* C32: in every state and for every event, at most one of the five
\* branches of handle_events acts on the event, the game after the last
\* branch is what handle_events leaves, and the game state it leaves is the
\* one that branch set.
C32_OneBranch ==
    \A event \in Events :
        /\ Cardinality(Consumed(self, event)) <= 1
        /\ Branches(self, event)[6] = handle_events(self, event)
        /\ \A i \in Consumed(self, event) :
               /\ Branches(self, event)[i].game_state = game_state
               /\ \A j \in i..5 :
                      Branches(self, event)[j + 1] = handle_events(self, event)

\* C32's case: the game registered, logged in and started with Enter from
\* the post-login menu, running and not paused by the same Enter.
C32_Witness ==
    /\ game_state = GAME_RUNNING
    /\ frame = 0 /\ now = 0
    /\ logged_in
    /\ Consumed([self EXCEPT !.game_state = POST_LOGIN_MENU], KeyDown("K_RETURN")) = {2}

\* C33 as stated: while a slow_ball effect is active, the ball's speed on
\* each axis is at least 0.7 times the baseline speed of that axis.
C33_SlowFloorAsStated ==
    active_power_up = "slow_ball" =>
        /\ 10 * Abs(ball.dx) >= 7 * Abs(default_ball_dx)
        /\ 10 * Abs(ball.dy) >= 7 * Abs(default_ball_dy)

\* How many of the power-ups the tick moves are extra lives on the paddle,
\* and whether the tick loses a ball that is not the last.
ExtraLivesCaught ==
    Cardinality({i \in 1..Len(Fallen) :
                    /\ Fallen[i].power_up_type = "extra_life"
                    /\ CollideRect(PowerUpRect(Fallen[i]), PaddleBelow)})
BallLost == level' = level /\ lives > 1 /\ BottomAfterMove >= 600

\* C34: a tick of the running game that leaves the paddle as wide as it was
\* ends with one life more for each extra_life the paddle catches (and one
\* less if it loses a ball that is not the last), and nothing but a tick, or
\* the restart, changes lives.  A tick that starts with the extra_life effect
\* active, whether the effect expires in it, is replaced by a power-up
\* caught in it, or stays, leaves the lives, the paddle and the ball it would
\* leave with no effect active; and the tick in which the effect expires
\* within a level leaves the paddle's width, the speed of a ball that is kept
\* and, unless a ball is lost, the lives as they were.
C34_ExtraLife ==
    /\ [][RunningTick /\ paddle'.width = PaddleBelow.w =>
            lives' = lives + ExtraLivesCaught - (IF BallLost THEN 1 ELSE 0)]_vars
    /\ [][~RunningTick /\ lives' # lives => game_state = GAME_OVER /\ lives' = 3]_vars
    /\ [][RunningTick /\ active_power_up = "extra_life" =>
            \E keys \in ArrowKeys(self) :
                \E draw \in Draws(self, keys) :
                    \E with \in {update_game(self, keys, draw)} :
                        \E without \in {update_game([self EXCEPT !.active_power_up = None],
                                                    keys, draw)} :
                            /\ with.lives = lives' /\ with.paddle = paddle'
                            /\ with.ball = ball' /\ with.power_ups = power_ups'
                            /\ with.bricks = bricks'
                            /\ without.lives = with.lives
                            /\ without.paddle = with.paddle
                            /\ without.ball = with.ball]_vars
    /\ [][/\ active_power_up = "extra_life" /\ active_power_up' = None
          /\ level' = level
          =>
          /\ RunningTick
          /\ lives' = lives - (IF BallLost THEN 1 ELSE 0)
          /\ paddle'.width = paddle.width
          /\ BallKept => Abs(ball'.dx) = Abs(ball.dx) /\ Abs(ball'.dy) = Abs(ball.dy)]_vars

\* C34's case: the extra life of ExtraLifeEnding, caught at 4131 ms with 3
\* lives, has expired in the tick at 9146 ms, and the lives are still 4.
C34_Witness ==
    /\ active_power_up = None
    /\ power_up_start_time = ExtraLifeEnding.power_up_start_time
    /\ now = ExtraLifeEnding.power_up_start_time + 5015 + FrameMs
    /\ lives = 4
    /\ paddle.width = Paddle.width
    /\ Abs(ball.dx) = 5 * Unit /\ Abs(ball.dy) = 5 * Unit

\* C35 as stated: a tick of the running game in which the ball, moved, meets
\* the paddle ends with the ball going up (dy < 0).
C35_UpAfterPaddleAsStated ==
    [][RunningTick /\ Strikes => ball'.dy < 0]_vars

\* C36 as stated: a tick of the running game that keeps its ball and leaves
\* it, moved, at or beyond the left or the right wall (the tick that
\* inverts dx there) leaves it a velocity whose next move brings the ball's
\* box strictly inside that wall.
C36_InsideAfterWallAsStated ==
    [][RunningTick /\ BallKept =>
          /\ ball'.x <= 0 => ball'.x + Trunc(ball'.dx) > 0
          /\ ball'.x + 20 >= 800 => ball'.x + Trunc(ball'.dx) + 20 < 800]_vars

\* The power-ups the tick finds and those it drops, before PowerUp.move, and
\* the ticks of the running game a power-up at height y has left before its
\* top is at 600 or beyond: ceil((600 - y) / 2).
BeforeFalling ==
    [i \in 1..(Len(power_ups) + Len(Dropped)) |->
        IF i <= Len(power_ups) THEN power_ups[i] ELSE Dropped[i - Len(power_ups)]]
TicksLeft(power_up) == (600 - power_up.y + 1) \div 2
Running == focused /\ game_state = GAME_RUNNING

\* C37: no state holds a power-up at 600 or beyond; only a tick of the
\* running game changes the falling power-ups; such a tick, level-up or not,
\* leaves no more of them than it found and dropped, each of them one it
\* found or dropped with one tick less left of its ceil((600 - y) / 2); and
\* for every r, a running game with r iterations to go and a power-up with
\* at most r ticks left comes to hold no such power-up, or stops running
\* (paused, unfocused, over).
C37_PowerUpsFall ==
    /\ [](\A i \in 1..Len(power_ups) :
             power_ups[i].y < 600 /\ TicksLeft(power_ups[i]) >= 1)
    /\ [][power_ups' # power_ups => RunningTick]_vars
    /\ [][RunningTick =>
            \A before \in {BeforeFalling} :
                /\ Len(power_ups') <= Len(before)
                /\ \A i \in 1..Len(power_ups') :
                       \E j \in 1..Len(before) :
                           /\ power_ups'[i].x = before[j].x
                           /\ power_ups'[i].power_up_type = before[j].power_up_type
                           /\ TicksLeft(power_ups'[i]) = TicksLeft(before[j]) - 1]_vars
    /\ \A r \in 1..MaxFrames :
           (/\ Running /\ error = None /\ frame <= MaxFrames - r
            /\ \E i \in 1..Len(power_ups) : TicksLeft(power_ups[i]) <= r)
           ~> (\/ ~Running
               \/ \A i \in 1..Len(power_ups) : TicksLeft(power_ups[i]) > r)

\* C37's case: the power-up of LastBrickDropping, dropped from y = 40 two
\* ticks before level 1 was cleared, is still falling at level 2, 6 ticks
\* after it was dropped and 274 before it leaves the screen.
C37_Witness ==
    /\ level = 2
    /\ power_ups = <<PowerUp(35, 40 + 2 * 6, "extra_life")>>
    /\ TicksLeft(power_ups[1]) = TicksLeft(PowerUp(35, 40, "extra_life")) - 6
    /\ now = LastBrickDropping.now + 7 * FrameMs

\* The most bursts of 10 particles a tick can add: one for the paddle and one
\* for each brick a ball of 20 by 20 can meet at once in a grid of bricks
\* 10 pixels apart (2 columns by 2 rows).
MaxBursts == 1 + 2 * 2
\* The particles with a given lifetime left.
Aged(pts, lifetime) == {i \in 1..Len(pts) : pts[i].lifetime = lifetime}

\* C38: every particle in the collection has between 1 and 49 ticks of
\* lifetime left, a size within (0, 9.8], and at most 10 * MaxBursts
\* particles share a lifetime, so that the collection holds no more than
\* 50 * 10 * MaxBursts.  A tick of the running game that stays in its level
\* leaves only particles it spawned (lifetime 49: the first of their 50
\* ticks) and particles it found, each with its lifetime one less and its
\* size no greater and at most 0.2 less, in their order; none it found with
\* 1 tick of lifetime left is there after it.  No other step changes the
\* particles but the restart, which clears them.
C38_ParticlesDie ==
    /\ [](/\ \A i \in 1..Len(particles) :
                /\ particles[i].lifetime \in 1..(50 - 1)
                /\ particles[i].size \in 1..(5 * 10 - 1)
          /\ \A lifetime \in 1..50 :
                Cardinality(Aged(particles, lifetime)) <= 10 * MaxBursts
          /\ Len(particles) <= 50 * (10 * MaxBursts))
    /\ [][RunningTick /\ level' = level =>
            /\ \A lifetime \in 1..(50 - 2) :
                   Cardinality(Aged(particles', lifetime))
                       <= Cardinality(Aged(particles, lifetime + 1))
            /\ Cardinality(Aged(particles', 50 - 1))
                   = 10 * ((IF Strikes THEN 1 ELSE 0) + Len(Broken))
            /\ \A i \in 1..Len(particles') :
                   \/ particles'[i].lifetime = 50 - 1
                   \/ \E j \in i..Len(particles) :
                          /\ particles'[i].lifetime = particles[j].lifetime - 1
                          /\ particles'[i].size <= particles[j].size
                          /\ particles'[i].size >= particles[j].size - 1]_vars
    /\ [][RunningTick /\ level' # level => particles' = <<>>]_vars
    /\ [][~RunningTick /\ particles' # particles =>
            game_state = GAME_OVER /\ particles' = <<>>]_vars

\* C38's case: the two particles of size 10 of the burst of tick 113 of
\* OldParticles, left with 1 tick of lifetime and size 0.2 after 49 ticks,
\* are gone after the 50th, at tick 162.
C38_Witness ==
    /\ particles = <<>>
    /\ game_state = GAME_RUNNING
    /\ frame = 3
    /\ now = OldParticles.now + 3 * FrameMs
====
